---- MODULE Spec2Model ----
(***************************************************************************)
(* A model of the multi-tape Turing-machine interpreter of                 *)
(* k4leg/turing_machine: Cell (cell.rs), Tape (tape.rs), Command /         *)
(* MultiCommand / Program (core.rs), TuringMachine (turing_machine.rs) and *)
(* the word cursor ExhaustiveWordsIter (exhaustive_words.rs).              *)
(*                                                                         *)
(* Spec drives a TuringMachine, SpecTape a Tape on its own, SpecWords a    *)
(* word cursor, SpecCommand a MultiCommand, SpecRun the preset machines of *)
(* main.rs and the machines of the tests until they halt, SpecPlot and     *)
(* SpecExec the two worker threads of main.rs with their stop flags,       *)
(* SpecEditor the rule table and the tape count the interface edits.       *)
(*                                                                         *)
(* Strings are sequences of characters; a character is a TLA+ string of    *)
(* one letter, and BLANK_CHAR stands for U+03BB, which UTF-8 encodes in    *)
(* two bytes.  A HashMap is a function with a finite domain.               *)
(***************************************************************************)
EXTENDS Integers, Sequences, FiniteSets, TLC

VARIABLES
    tm,     \* the TuringMachine, or NoMachine
    op,     \* the operation called last
    args,   \* the arguments of that call
    ret,    \* the value it returned
    fired,  \* history: the transitions the machine has taken since it was built
    solo,       \* a Tape used on its own, outside a machine
    solo_op,    \* the operation called last on it
    solo_arg,   \* the argument of that call
    solo_ret,   \* the value it returned
    origin,     \* history: how solo was created
    content,    \* history: the cell last put at each position of solo
    cursor,     \* an ExhaustiveWordsIter
    word_op,    \* the operation called last on it
    word,       \* the value its next returned last
    yielded,    \* history: the words next has returned, in order
    steps,      \* history: the calls of next that returned a snapshot
    mcmd,       \* a MultiCommand, or NoCommand
    mcmd_op,    \* the operation called last on it
    mcmd_args,  \* the arguments it was created from
    mcmd_ret,   \* the value that operation returned
    mcmd_before,    \* history: the MultiCommand before that operation
    exec,       \* the execution session: start_tm's thread and its flags
    plot,       \* the plotting session: start_plot's thread and its flags
    editor      \* the rule table and the tape count the interface edits

machine_vars == <<tm, op, args, ret, fired>>

solo_vars == <<solo, solo_op, solo_arg, solo_ret, origin, content>>

cursor_vars == <<cursor, word_op, word, yielded>>

command_vars == <<mcmd, mcmd_op, mcmd_args, mcmd_ret, mcmd_before>>

\* the variables of the objects added to the model last
more_vars == <<steps, command_vars, exec, plot, editor>>

vars == <<tm, op, args, ret, fired, solo, solo_op, solo_arg, solo_ret, origin,
          content, cursor, word_op, word, yielded, steps, mcmd, mcmd_op,
          mcmd_args, mcmd_ret, mcmd_before, exec, plot, editor>>

----------------------------------------------------------------------------
(* Bounds of the model                                                     *)

\* longest initial tape string, in characters
MaxLen == 2
\* longest rule list handed to a constructor
MaxCmds == 2
\* next is explored while every head stays within -MaxHead .. MaxHead
MaxHead == 3
\* longest vector of initial tapes handed to a constructor
MaxTapes == 2
\* longest alphabet a word cursor is made over
MaxAlphabet == 2
\* longest word length a word cursor is asked for
MaxWordLen == 3
\* add_tape is explored while a command has fewer than MaxSlots tapes
MaxSlots == 4
\* longest word a preset or test machine is run on, besides the tests' words
MaxRunLen == 5
\* a run is explored for at most MaxSteps steps
MaxSteps == 110
\* the plotting worker is explored up to words of MaxPlotLen letters
MaxPlotLen == 2
\* a trial of the plotting worker is explored for at most MaxTrialSteps steps
MaxTrialSteps == 502
\* the execution worker is explored while the trace has fewer than
\* MaxProtocol snapshots
MaxProtocol == 4

\* steps of a machine that are compared
MaxTrace == 3

\* tapes of the editor's rule table
MaxNumTapes == 3

\* calls of add_command between two presets
MaxAdded == 2

(* Numbers of the program *)

\* the turns of the plotting worker between two reads of its stop flag
PollPeriod == 500

----------------------------------------------------------------------------
(* cell.rs                                                                 *)

BLANK_CHAR == "lambda"

Blank == <<"Blank">>

Symbol(ch) == <<"Symbol", ch>>

\* impl From<Cell> for char
CellToChar(value) == IF value = Blank THEN BLANK_CHAR ELSE value[2]

\* impl From<char> for Cell
CharToCell(value) == IF value = BLANK_CHAR THEN Blank ELSE Symbol(value)

\* char::len_utf8 of the characters of the model
LenUtf8(ch) == IF ch = BLANK_CHAR THEN 2 ELSE 1

RECURSIVE StrLen(_)
\* str::len: the length of a string in bytes
StrLen(value) ==
    IF value = <<>> THEN 0 ELSE LenUtf8(Head(value)) + StrLen(Tail(value))

----------------------------------------------------------------------------
(* HashMap                                                                 *)

EmptyMap == <<>>

ContainsKey(m, k) == k \in DOMAIN m

\* HashMap::insert: the entry of k is replaced or added
MapInsert(m, k, v) == (k :> v) @@ m

MapRemove(m, k) == [x \in (DOMAIN m) \ {k} |-> m[x]]

----------------------------------------------------------------------------
(* tape.rs                                                                 *)

\* Tape::new
TapeNew == [tape |-> EmptyMap, min |-> 0, max |-> 0, head |-> 0]

\* a loop that steps min at most once
TrimMinOnce(tape, min, max) ==
    IF min < max /\ ~ContainsKey(tape, min) THEN min + 1 ELSE min

RECURSIVE TrimMin(_, _, _)
\* while self.min < self.max && !self.tape.contains_key(&self.min)
TrimMin(tape, min, max) ==
    IF min < max /\ ~ContainsKey(tape, min) THEN TrimMin(tape, min + 1, max)
    ELSE min

RECURSIVE TrimMaxPast(_, _, _)
\* a loop that tests min <= max and so steps max once more
TrimMaxPast(tape, min, max) ==
    IF min <= max /\ ~ContainsKey(tape, max)
    THEN TrimMaxPast(tape, min, max - 1)
    ELSE max

RECURSIVE TrimMax(_, _, _)
\* while self.min < self.max && !self.tape.contains_key(&self.max)
TrimMax(tape, min, max) ==
    IF min < max /\ ~ContainsKey(tape, max) THEN TrimMax(tape, min, max - 1)
    ELSE max

\* a trim that never lets the window leave the head behind
TrimHoldsHead(t) ==
    IF t.head >= t.min
    THEN LET max1 == IF t.head > t.max THEN t.head ELSE t.max
             min2 == TrimMin(t.tape, t.min, t.head)
             max2 == TrimMax(t.tape, t.head, max1)
         IN  [t EXCEPT !.min = min2, !.max = max2]
    ELSE LET min1 == IF t.head < t.min THEN t.head ELSE t.min
             max2 == TrimMax(t.tape, min1, t.max)
         IN  [t EXCEPT !.min = min1, !.max = max2]

\* Tape::trim
Trim(t) ==
    IF t.head >= t.min
    THEN LET max1 == IF t.head > t.max THEN t.head ELSE t.max
             min2 == TrimMin(t.tape, t.min, max1)
             max2 == TrimMax(t.tape, min2, max1)
         IN  [t EXCEPT !.min = min2, !.max = max2]
    ELSE LET min1 == IF t.head < t.min THEN t.head ELSE t.min
             max2 == TrimMax(t.tape, min1, t.max)
             min2 == TrimMin(t.tape, min1, max2)
         IN  [t EXCEPT !.min = min2, !.max = max2]

\* a left that stops one cell before the window
TapeLeftStopsAtWindow(t) ==
    IF t.head >= t.min THEN Trim([t EXCEPT !.head = t.head - 1]) ELSE t

\* Tape::left
TapeLeft(t) == Trim([t EXCEPT !.head = t.head - 1])

\* Tape::right
TapeRight(t) == Trim([t EXCEPT !.head = t.head + 1])

\* Tape::get
TapeGet(t) == IF ContainsKey(t.tape, t.head) THEN t.tape[t.head] ELSE Blank

\* a write that leaves the map alone when the cell is Blank
TapeWriteSkipsBlank(t, cell) ==
    IF cell = Blank
    THEN Trim(t)
    ELSE LET ins == [t EXCEPT !.tape = MapInsert(t.tape, t.head, cell)]
         IN  Trim(IF t.head > t.max THEN [ins EXCEPT !.max = t.head]
                  ELSE IF t.head < t.min THEN [ins EXCEPT !.min = t.head]
                  ELSE ins)

\* Tape::write
TapeWrite(t, cell) ==
    IF cell = Blank
    THEN Trim([t EXCEPT !.tape = MapRemove(t.tape, t.head)])
    ELSE LET ins == [t EXCEPT !.tape = MapInsert(t.tape, t.head, cell)]
         IN  Trim(IF t.head > t.max THEN [ins EXCEPT !.max = t.head]
                  ELSE IF t.head < t.min THEN [ins EXCEPT !.min = t.head]
                  ELSE ins)

RECURSIVE TapeIterCollect(_, _, _)
\* TapeIter::next, run to exhaustion: the cells of index ..= max
TapeIterCollect(tape, index, max) ==
    IF index > max THEN <<>>
    ELSE <<IF ContainsKey(tape, index) THEN tape[index] ELSE Blank>>
         \o TapeIterCollect(tape, index + 1, max)

\* TapeIter::new followed by the iteration
TapeIter(t) ==
    TapeIterCollect(t.tape,
                    IF t.head < t.min THEN t.head ELSE t.min,
                    IF t.head > t.max THEN t.head ELSE t.max)

\* impl fmt::Display for Tape
TapeToString(t) ==
    LET cells == TapeIter(t) IN [i \in 1..Len(cells) |-> CellToChar(cells[i])]

\* the outcome of an index out of bounds
Panic == <<"panic!">>

\* a rendering that takes the head's position for the index of its character
ToStringWithStateAtHead(t, state) ==
    LET s == TapeToString(t)
        idx == IF t.head >= 0 THEN t.head ELSE 0
    IN  IF idx >= Len(s) THEN Panic
        ELSE SubSeq(s, 1, idx) \o state \o SubSeq(s, idx + 1, Len(s))

\* Tape::to_string_with_state
ToStringWithState(t, state) ==
    LET s == TapeToString(t)
        idx == IF t.head >= t.min THEN t.head - t.min ELSE 0
    IN  IF idx >= Len(s) THEN Panic
        ELSE SubSeq(s, 1, idx) \o state \o SubSeq(s, idx + 1, Len(s))

\* impl From<&str> for Tape
TapeFrom(value) ==
    [tape |-> [n \in 0..(Len(value) - 1) |-> CharToCell(value[n + 1])],
     min  |-> 0,
     max  |-> StrLen(value) - 1,
     head |-> 0]

----------------------------------------------------------------------------
(* core.rs                                                                 *)

Directions == {"Left", "None", "Right"}

\* Command::new
Command(istate, icell, ostate, ocell, direction) ==
    [istate |-> istate, icell |-> icell, ostate |-> ostate, ocell |-> ocell,
     direction |-> direction]

Ok == <<"Ok">>

Err(msg) == <<"Err", msg>>

IsErr(r) == r[1] = "Err"

\* MultiCommand::new: the command on success
MultiCommand(istate, icells, ostate, ocells, directions) ==
    [istate |-> istate, icells |-> icells, ostate |-> ostate,
     ocells |-> ocells, directions |-> directions, length |-> Len(icells)]

\* MultiCommand::new: Ok or the error
MultiCommandNew(istate, icells, ostate, ocells, directions) ==
    LET length == Len(icells) IN
    IF length = 0 \/ length # Len(ocells) \/ length # Len(directions)
    THEN Err("invalid length")
    ELSE Ok

\* a conversion that leaves the head where it is
MultiCommandFromStays(value) ==
    [istate |-> value.istate, icells |-> <<value.icell>>,
     ostate |-> value.ostate, ocells |-> <<value.ocell>>,
     directions |-> <<"None">>, length |-> 1]

\* impl From<Command> for MultiCommand
MultiCommandFrom(value) ==
    [istate |-> value.istate, icells |-> <<value.icell>>,
     ostate |-> value.ostate, ocells |-> <<value.ocell>>,
     directions |-> <<value.direction>>, length |-> 1]

\* Vec::pop: an empty vector stays empty
Pop(v) == IF v = <<>> THEN v ELSE SubSeq(v, 1, Len(v) - 1)

\* an add_tape that puts the new slot first
MultiCommandAddTapeFront(cmd) ==
    [cmd EXCEPT !.icells = <<Blank>> \o cmd.icells,
                !.ocells = <<Blank>> \o cmd.ocells,
                !.directions = <<"None">> \o cmd.directions,
                !.length = cmd.length + 1]

\* MultiCommand::add_tape
MultiCommandAddTape(cmd) ==
    [cmd EXCEPT !.icells = Append(cmd.icells, Blank),
                !.ocells = Append(cmd.ocells, Blank),
                !.directions = Append(cmd.directions, "None"),
                !.length = cmd.length + 1]

\* a remove_tape that does not look at the length
MultiCommandRemoveTapeAlways(cmd) ==
    [cmd EXCEPT !.icells = Pop(cmd.icells),
                !.ocells = Pop(cmd.ocells),
                !.directions = Pop(cmd.directions),
                !.length = cmd.length - 1]

\* MultiCommand::remove_tape
MultiCommandRemoveTape(cmd) ==
    IF cmd.length = 1 THEN cmd
    ELSE [cmd EXCEPT !.icells = Pop(cmd.icells),
                     !.ocells = Pop(cmd.ocells),
                     !.directions = Pop(cmd.directions),
                     !.length = cmd.length - 1]

\* MultiCommand::len
MultiCommandLen(cmd) == cmd.length

\* an insertion that keeps the value a key already has
ProgramInsertNew(program, istate, icells, value) ==
    LET instructions ==
            IF ContainsKey(program, istate) THEN program[istate] ELSE EmptyMap
    IN  MapInsert(program, istate,
                  IF ContainsKey(instructions, icells) THEN instructions
                  ELSE MapInsert(instructions, icells, value))

\* program.entry(istate).or_default().insert(icells, value)
ProgramInsert(program, istate, icells, value) ==
    LET instructions ==
            IF ContainsKey(program, istate) THEN program[istate] ELSE EmptyMap
    IN  MapInsert(program, istate, MapInsert(instructions, icells, value))

----------------------------------------------------------------------------
(* turing_machine.rs                                                       *)

\* the value of the model when no machine has been built
NoMachine == [tapes |-> <<>>, current_state |-> <<>>, program |-> EmptyMap]

Machine(tapes, current_state, program) ==
    [tapes |-> tapes, current_state |-> current_state, program |-> program]

\* the tapes built from the initial strings
TapesFrom(start_tapes) ==
    [i \in 1..Len(start_tapes) |-> TapeFrom(start_tapes[i])]

\* the rules of a Program, as a set of <<istate, icells, value>>
Rules(program) ==
    UNION {{<<s, k, program[s][k]>> : k \in DOMAIN program[s]} :
           s \in DOMAIN program}

\* the loop of TuringMachine::new that checks every rule's lengths
AllLengthsAre(program, length) ==
    \A s \in DOMAIN program : \A icells \in DOMAIN program[s] :
        ~(\/ length # Len(icells)
          \/ length # Len(program[s][icells][2])
          \/ length # Len(program[s][icells][3]))

\* TuringMachine::new; first_state and first_key are the entries that the
\* iteration of the two HashMaps happens to yield first
TMNew(start_tapes, start_state, program, first_state, first_key) ==
    IF DOMAIN program = {} THEN
        [ret |-> Err("there's no instructions"), tm |-> NoMachine]
    ELSE IF DOMAIN program[first_state] = {} THEN
        [ret |-> Err("there's no instructions"), tm |-> NoMachine]
    ELSE IF Len(first_key) # Len(start_tapes) THEN
        [ret |-> Err("length of instructions and tapes does not equal"),
         tm |-> NoMachine]
    ELSE IF ~AllLengthsAre(program, Len(first_key)) THEN
        [ret |-> Err("invalid instructions length"), tm |-> NoMachine]
    ELSE [ret |-> Ok,
          tm |-> Machine(TapesFrom(start_tapes), start_state, program)]

\* a start state taken from the last command
LastIState(commands) == commands[Len(commands)].istate

\* commands.first(): the input state of the first command
StartState(commands) == commands[1].istate

RECURSIVE FromProgram(_, _)
\* the loop of TuringMachine::from that inserts the commands in list order
FromProgram(program, commands) ==
    IF commands = <<>> THEN program
    ELSE LET cmd == Head(commands) IN
         FromProgram(ProgramInsert(program, cmd.istate, <<cmd.icell>>,
                                   <<cmd.ostate, <<cmd.ocell>>,
                                     <<cmd.direction>>>>),
                     Tail(commands))

\* TuringMachine::from
TMFrom(start_tape, commands) ==
    IF commands = <<>> THEN [ret |-> Err("no commands"), tm |-> NoMachine]
    ELSE [ret |-> Ok,
          tm |-> Machine(<<TapeFrom(start_tape)>>, StartState(commands),
                         FromProgram(EmptyMap, commands))]

RECURSIVE FromMultiProgramUnchecked(_, _, _)
\* a loop that inserts the commands without comparing their lengths
FromMultiProgramUnchecked(program, commands, length) ==
    IF commands = <<>> THEN [ret |-> Ok, program |-> program]
    ELSE LET cmd == Head(commands) IN
         FromMultiProgramUnchecked(
             ProgramInsert(program, cmd.istate, cmd.icells,
                           <<cmd.ostate, cmd.ocells, cmd.directions>>),
             Tail(commands), length)

RECURSIVE FromMultiProgram(_, _, _)
\* the loop of TuringMachine::from_multi: the Program, or the error of the
\* first command whose length differs.  A list of several commands is
\* taken by halves, the second half going on from what the first half left,
\* which is what taking the commands one after another gives
FromMultiProgram(program, commands, length) ==
    IF commands = <<>> THEN [ret |-> Ok, program |-> program]
    ELSE IF Len(commands) = 1 THEN
         LET cmd == Head(commands) IN
         IF length # MultiCommandLen(cmd)
         THEN [ret |-> Err("invalid tapes length"), program |-> EmptyMap]
         ELSE [ret |-> Ok,
               program |-> ProgramInsert(program, cmd.istate, cmd.icells,
                                         <<cmd.ostate, cmd.ocells,
                                           cmd.directions>>)]
    ELSE LET half == Len(commands) \div 2
             first == FromMultiProgram(program, SubSeq(commands, 1, half),
                                       length)
         IN  IF IsErr(first.ret) THEN first
             ELSE FromMultiProgram(first.program,
                                   SubSeq(commands, half + 1, Len(commands)),
                                   length)

\* TuringMachine::from_multi
TMFromMulti(start_tapes, commands) ==
    IF commands = <<>> THEN [ret |-> Err("no commands"), tm |-> NoMachine]
    ELSE LET length == MultiCommandLen(commands[1])
             start_state == StartState(commands)
         IN  IF length # Len(start_tapes)
             THEN [ret |-> Err("invalid tapes length"), tm |-> NoMachine]
             ELSE LET p == FromMultiProgram(EmptyMap, commands, length) IN
                  IF IsErr(p.ret) THEN [ret |-> p.ret, tm |-> NoMachine]
                  ELSE [ret |-> Ok,
                        tm |-> Machine(TapesFrom(start_tapes), start_state,
                                       p.program)]

\* a restart that takes the new state before it counts the tapes
TMRestartStateFirst(m, start_tapes, start_state) ==
    IF Len(start_tapes) # Len(m.tapes)
    THEN [ret |-> Err("invalid start tapes"),
          tm |-> [m EXCEPT !.current_state = start_state]]
    ELSE [ret |-> Ok,
          tm |-> [m EXCEPT !.tapes = TapesFrom(start_tapes),
                           !.current_state = start_state]]

\* a restart that gives every tape its new content and leaves each head
\* where it was
TMRestartKeepsHeads(m, start_tapes, start_state) ==
    IF Len(start_tapes) # Len(m.tapes)
    THEN [ret |-> Err("invalid start tapes"), tm |-> m]
    ELSE [ret |-> Ok,
          tm |-> [m EXCEPT
                    !.tapes = [i \in 1..Len(start_tapes) |->
                                 [TapeFrom(start_tapes[i]) EXCEPT
                                     !.head = m.tapes[i].head]],
                    !.current_state = start_state]]

\* TuringMachine::restart
TMRestart(m, start_tapes, start_state) ==
    IF Len(start_tapes) # Len(m.tapes)
    THEN [ret |-> Err("invalid start tapes"), tm |-> m]
    ELSE [ret |-> Ok,
          tm |-> [m EXCEPT !.tapes = TapesFrom(start_tapes),
                           !.current_state = start_state]]

\* TuringMachine::to_strings
ToStrings(m) ==
    LET strings == [i \in 1..Len(m.tapes) |->
                        ToStringWithState(m.tapes[i], m.current_state)]
    IN  IF \E i \in 1..Len(strings) : strings[i] = Panic THEN Panic
        ELSE strings

None == <<"None">>

Some(v) == <<"Some", v>>

\* a lookup that reads the first cell of each tape's window, not the cell
\* under its head
ICellsAtMin(m) ==
    [i \in 1..Len(m.tapes) |->
        IF ContainsKey(m.tapes[i].tape, m.tapes[i].min)
        THEN m.tapes[i].tape[m.tapes[i].min] ELSE Blank]

\* the cells under the heads: tapes.iter().map(|tape| tape.get()).collect()
ICells(m) == [i \in 1..Len(m.tapes) |-> TapeGet(m.tapes[i])]

\* an iteration that moves the head before it writes
MoveWrite(tape, cell, direction) ==
    TapeWrite(CASE direction = "Left"  -> TapeLeft(tape)
                [] direction = "None"  -> tape
                [] direction = "Right" -> TapeRight(tape),
              cell)

\* one iteration of the loop of next: write, then move
WriteMove(tape, cell, direction) ==
    LET w == TapeWrite(tape, cell) IN
    CASE direction = "Left"  -> TapeLeft(w)
      [] direction = "None"  -> w
      [] direction = "Right" -> TapeRight(w)

\* a halt that takes the current state out of the machine
HaltTakesState(m) == [ret |-> None, tm |-> [m EXCEPT !.current_state = <<>>]]

\* a halt that has moved every head one cell to the right
HaltAdvances(m) ==
    [ret |-> None,
     tm |-> [m EXCEPT !.tapes =
                 [i \in 1..Len(m.tapes) |-> TapeRight(m.tapes[i])]]]

\* the two `None => return None` arms of next
Halt(m) == [ret |-> None, tm |-> m]

Min(a, b) == IF a < b THEN a ELSE b

Max(a, b) == IF a > b THEN a ELSE b

\* impl Iterator for TuringMachine: next
TMNext(m) ==
    IF ~ContainsKey(m.program, m.current_state)
    THEN Halt(m)
    ELSE LET instructions == m.program[m.current_state]
             icells == ICells(m)
         IN  IF ~ContainsKey(instructions, icells)
             THEN Halt(m)
             ELSE LET state == instructions[icells][1]
                      ocells == instructions[icells][2]
                      directions == instructions[icells][3]
                      zipped == Min(Len(m.tapes),
                                    Min(Len(ocells), Len(directions)))
                      stepped ==
                          [m EXCEPT
                             !.tapes = [i \in 1..Len(m.tapes) |->
                                 IF i <= zipped
                                 THEN WriteMove(m.tapes[i], ocells[i],
                                                directions[i])
                                 ELSE m.tapes[i]],
                             !.current_state = state]
                      strings == ToStrings(stepped)
                  IN  IF strings = Panic
                      THEN [ret |-> Panic, tm |-> stepped]
                      ELSE [ret |-> Some(strings), tm |-> stepped]

----------------------------------------------------------------------------
(* exhaustive_words.rs                                                     *)

\* a cursor that starts unfinished whatever the length
ExhaustiveWordsIterNewUnfinished(chars, length) ==
    [chars |-> chars, current |-> [i \in 1..length |-> 0], length |-> length,
     finished |-> FALSE]

\* ExhaustiveWordsIter::new, which get_exhaustive_words(n) calls;
\* current is indexed 1..length here and holds the 0-based indices of chars
ExhaustiveWordsIterNew(chars, length) ==
    [chars |-> chars, current |-> [i \in 1..length |-> 0], length |-> length,
     finished |-> length = 0]

RECURSIVE Advance(_, _, _)
\* the loop for i in (0..self.length).rev() of next, entered at index i with
\* n = self.chars.len(); it is entered only after self.chars[..] was read,
\* so n >= 1 and n - 1 does not underflow
Advance(current, i, n) ==
    IF i = 0 THEN [current |-> current, finished |-> TRUE]
    ELSE IF current[i] < n - 1
    THEN [current |-> [current EXCEPT ![i] = current[i] + 1],
          finished |-> FALSE]
    ELSE Advance([current EXCEPT ![i] = 0], i - 1, n)

\* ExhaustiveWordsIter::next
ExhaustiveWordsIterNext(it) ==
    IF it.finished THEN [ret |-> None, it |-> it]
    ELSE IF \E i \in 1..it.length : it.current[i] >= Len(it.chars)
    THEN [ret |-> Panic, it |-> it]
    ELSE LET res == [i \in 1..it.length |-> it.chars[it.current[i] + 1]]
             adv == Advance(it.current, it.length, Len(it.chars))
         IN  [ret |-> Some(res),
              it |-> [it EXCEPT !.current = adv.current,
                                !.finished = adv.finished]]

----------------------------------------------------------------------------
(* The inputs of the operations                                            *)

q0 == <<"q", "0">>

q1 == <<"q", "1">>

States == {q0, q1}

Cells == {Blank, Symbol("a")}

\* the sequences over S of length at most n
SeqsUpTo(S, n) == UNION {[1..k -> S] : k \in 0..n}

\* initial tape strings; BLANK_CHAR is a character a caller may pass
Words == SeqsUpTo({"a"}, MaxLen) \cup {<<BLANK_CHAR>>, <<"a", BLANK_CHAR>>}

\* what a rule of the inputs does: <<ostate, ocell, direction>>
Outputs ==
    {<<q0, Symbol("a"), "Right">>, <<q1, Blank, "Left">>,
     <<q1, Symbol("a"), "None">>}

\* the single-tape rules given to from
Commands ==
    {Command(i, ic, out[1], out[2], out[3]) :
        i \in States, ic \in Cells, out \in Outputs}

\* the tuples given to MultiCommand::new, and the rules it returns
MultiCommands ==
    {MultiCommand(i, ic, q1, oc, d) :
        i \in States,
        ic \in {<<Symbol("a")>>, <<Blank, Blank>>, <<Symbol("a"), Blank>>},
        oc \in {<<Blank>>, <<Symbol("a"), Blank>>, <<Blank, Symbol("a")>>},
        d \in {<<"None">>, <<"Right", "Left">>}}

ValidMultiCommands ==
    {c \in MultiCommands :
        MultiCommandNew(c.istate, c.icells, c.ostate, c.ocells,
                        c.directions) = Ok}

\* initial tapes of the multi-tape constructors and of restart
MultiWords == {<<>>, <<"a">>}

TapeVecs == SeqsUpTo(MultiWords, MaxTapes)

\* restart is given a word for tape 0 and empty other tapes
RestartTapeVecs ==
    {<<>>} \cup {<<w>> : w \in MultiWords} \cup {<<w, <<>>>> : w \in MultiWords}

\* the shapes of the rules of the Programs given to new: tuples of any length
RawShapes ==
    {<<<<>>, <<>>, <<>>>>,
     <<<<Symbol("a")>>, <<Blank>>, <<"Right">>>>,
     <<<<Blank>>, <<Symbol("a")>>, <<"Left">>>>,
     <<<<Symbol("a"), Blank>>, <<Blank, Symbol("a")>>, <<"Right", "Left">>>>,
     <<<<Symbol("a")>>, <<Blank, Symbol("a")>>, <<"Right">>>>,
     <<<<Blank>>, <<Symbol("a")>>, <<>>>>}

RawRules ==
    {<<i, sh[1], <<q0, sh[2], sh[3]>>>> : i \in States, sh \in RawShapes}

RECURSIVE RawProgram(_, _)
RawProgram(program, rules) ==
    IF rules = <<>> THEN program
    ELSE RawProgram(ProgramInsert(program, Head(rules)[1], Head(rules)[2],
                                  Head(rules)[3]),
                    Tail(rules))

\* program.entry(s).or_default() for the states of S
WithStates(program, S) ==
    [s \in (DOMAIN program) \cup S |->
        IF s \in DOMAIN program THEN program[s] ELSE EmptyMap]

Programs ==
    {WithStates(RawProgram(EmptyMap, rules), S) :
        rules \in SeqsUpTo(RawRules, MaxCmds), S \in SUBSET States}

NewTapeVecs == SeqsUpTo({<<"a">>}, MaxTapes)

\* the cells written to a tape used on its own
SoloCells == {Blank, Symbol("b")}

\* the labels a tape used on its own is rendered with
Labels == {<<>>, q0}

\* the characters of the alphabets
Chars == {"a", "b", "c"}

\* the alphabets a word cursor is made over: any sequence of characters,
\* the empty one and those that repeat a character included
Alphabets == SeqsUpTo(Chars, MaxAlphabet)

----------------------------------------------------------------------------
(* main.rs: the preset rule tables, and the machines of the tests          *)

\* Direction::from_char for the three letters it accepts
DirectionFromChar(ch) ==
    CASE ch = "L" -> "Left"
      [] ch = "N" -> "None"
      [] ch = "R" -> "Right"

\* tm_cmd!
TmCmd(istate, icell, ostate, ocell, dir) ==
    Command(istate, icell, ostate, ocell, DirectionFromChar(dir))

\* tm_mcmd!
TmMcmd(istate, icells, ostate, ocells, dirs) ==
    MultiCommand(istate, icells, ostate, ocells,
                 [i \in 1..Len(dirs) |-> DirectionFromChar(dirs[i])])

\* the halting state of the tests' machines
qz == <<"q", "z">>

\* a machine that rewrites a to b and stays where it is
CopyCommandsInPlace ==
    <<Command(q0, Symbol("a"), q0, Symbol("b"), "None")>>

\* the one command of test_3, which rewrites a to b going right
CopyCommands ==
    <<Command(q0, Symbol("a"), q0, Symbol("b"), "Right")>>

\* a complement machine whose way back rewrites what it passes
ComplementCommandsFlipBack ==
    <<Command(q0, Symbol("0"), q0, Symbol("1"), "Right"),
      Command(q0, Symbol("1"), q0, Symbol("0"), "Right"),
      Command(q0, Blank, q1, Blank, "Left"),
      Command(q1, Symbol("0"), q1, Symbol("1"), "Left"),
      Command(q1, Symbol("1"), q1, Symbol("0"), "Left"),
      Command(q1, Blank, qz, Blank, "Right")>>

\* the commands of test_4, the binary complement
ComplementCommands ==
    <<Command(q0, Symbol("0"), q0, Symbol("1"), "Right"),
      Command(q0, Symbol("1"), q0, Symbol("0"), "Right"),
      Command(q0, Blank, q1, Blank, "Left"),
      Command(q1, Symbol("0"), q1, Symbol("0"), "Left"),
      Command(q1, Symbol("1"), q1, Symbol("1"), "Left"),
      Command(q1, Blank, qz, Blank, "Right")>>

\* the rules of preset_one_tape for state q0
OneTapeQ0 ==
    <<TmCmd(<<"q", "0">>, Blank, <<"q", "z">>, CharToCell("0"), "N"),
      TmCmd(<<"q", "0">>, CharToCell("b"), <<"q", "1", "8">>, CharToCell("b"), "N"),
      TmCmd(<<"q", "0">>, CharToCell("c"), <<"q", "1", "8">>, CharToCell("c"), "N"),
      TmCmd(<<"q", "0">>, CharToCell("a"), <<"q", "1">>, CharToCell("A"), "R")>>

\* the rules of preset_one_tape for state q1
OneTapeQ1 ==
    <<TmCmd(<<"q", "1">>, Blank, <<"q", "1", "9">>, Blank, "L"),
      TmCmd(<<"q", "1">>, CharToCell("a"), <<"q", "1">>, CharToCell("a"), "R"),
      TmCmd(<<"q", "1">>, CharToCell("c"), <<"q", "1", "8">>, CharToCell("c"), "N"),
      TmCmd(<<"q", "1">>, CharToCell("B"), <<"q", "2">>, CharToCell("B"), "N"),
      TmCmd(<<"q", "1">>, CharToCell("b"), <<"q", "2">>, CharToCell("b"), "N")>>

\* the rules of preset_one_tape for state q2
OneTapeQ2 ==
    <<TmCmd(<<"q", "2">>, Blank, <<"q", "1", "9">>, Blank, "L"),
      TmCmd(<<"q", "2">>, CharToCell("a"), <<"q", "1", "8">>, CharToCell("a"), "N"),
      TmCmd(<<"q", "2">>, CharToCell("B"), <<"q", "2">>, CharToCell("B"), "R"),
      TmCmd(<<"q", "2">>, CharToCell("b"), <<"q", "3">>, CharToCell("B"), "L"),
      TmCmd(<<"q", "2">>, CharToCell("c"), <<"q", "8">>, CharToCell("c"), "L")>>

\* the rules of preset_one_tape for state q3
OneTapeQ3 ==
    <<TmCmd(<<"q", "3">>, CharToCell("B"), <<"q", "3">>, CharToCell("B"), "L"),
      TmCmd(<<"q", "3">>, CharToCell("a"), <<"q", "4">>, CharToCell("a"), "N"),
      TmCmd(<<"q", "3">>, CharToCell("A"), <<"q", "7">>, CharToCell("A"), "R")>>

\* the rules of preset_one_tape for state q4
OneTapeQ4 ==
    <<TmCmd(<<"q", "4">>, CharToCell("a"), <<"q", "4">>, CharToCell("a"), "L"),
      TmCmd(<<"q", "4">>, CharToCell("A"), <<"q", "5">>, CharToCell("A"), "R")>>

\* the rules of preset_one_tape for state q5
OneTapeQ5 ==
    <<TmCmd(<<"q", "5">>, CharToCell("a"), <<"q", "1">>, CharToCell("A"), "R")>>

\* the rules of preset_one_tape for state q7
OneTapeQ7 ==
    <<TmCmd(<<"q", "7">>, Blank, <<"q", "1", "9">>, Blank, "L"),
      TmCmd(<<"q", "7">>, CharToCell("a"), <<"q", "1", "8">>, CharToCell("a"), "N"),
      TmCmd(<<"q", "7">>, CharToCell("B"), <<"q", "7">>, CharToCell("B"), "R"),
      TmCmd(<<"q", "7">>, CharToCell("b"), <<"q", "7">>, CharToCell("b"), "R"),
      TmCmd(<<"q", "7">>, CharToCell("c"), <<"q", "6">>, CharToCell("c"), "L")>>

\* the rules of preset_one_tape for state q6
OneTapeQ6 ==
    <<TmCmd(<<"q", "6">>, CharToCell("A"), <<"q", "6">>, CharToCell("A"), "L"),
      TmCmd(<<"q", "6">>, CharToCell("B"), <<"q", "6">>, CharToCell("B"), "L"),
      TmCmd(<<"q", "6">>, Blank, <<"q", "1", "8">>, Blank, "R"),
      TmCmd(<<"q", "6">>, CharToCell("b"), <<"q", "8">>, CharToCell("b"), "L"),
      TmCmd(<<"q", "6">>, CharToCell("a"), <<"q", "8">>, CharToCell("a"), "L")>>

\* the rules of preset_one_tape for state q8
OneTapeQ8 ==
    <<TmCmd(<<"q", "8">>, CharToCell("b"), <<"q", "8">>, CharToCell("b"), "L"),
      TmCmd(<<"q", "8">>, CharToCell("B"), <<"q", "8">>, CharToCell("B"), "L"),
      TmCmd(<<"q", "8">>, CharToCell("a"), <<"q", "8">>, CharToCell("a"), "L"),
      TmCmd(<<"q", "8">>, CharToCell("A"), <<"q", "8">>, CharToCell("a"), "L"),
      TmCmd(<<"q", "8">>, Blank, <<"q", "9">>, Blank, "R")>>

\* the rules of preset_one_tape for state q9
OneTapeQ9 ==
    <<TmCmd(<<"q", "9">>, CharToCell("a"), <<"q", "1", "0">>, CharToCell("A"), "R")>>

\* the rules of preset_one_tape for state q10
OneTapeQ10 ==
    <<TmCmd(<<"q", "1", "0">>, CharToCell("a"), <<"q", "1", "0">>, CharToCell("a"), "R"),
      TmCmd(<<"q", "1", "0">>, CharToCell("b"), <<"q", "1", "1">>, CharToCell("b"), "N"),
      TmCmd(<<"q", "1", "0">>, CharToCell("B"), <<"q", "1", "1">>, CharToCell("B"), "N")>>

\* the rules of preset_one_tape for state q11
OneTapeQ11 ==
    <<TmCmd(<<"q", "1", "1">>, CharToCell("B"), <<"q", "1", "1">>, CharToCell("B"), "R"),
      TmCmd(<<"q", "1", "1">>, CharToCell("b"), <<"q", "1", "1">>, CharToCell("b"), "R"),
      TmCmd(<<"q", "1", "1">>, CharToCell("c"), <<"q", "1", "2">>, CharToCell("c"), "N"),
      TmCmd(<<"q", "1", "1">>, CharToCell("C"), <<"q", "1", "2">>, CharToCell("C"), "N")>>

\* the rules of preset_one_tape for state q12
OneTapeQ12 ==
    <<TmCmd(<<"q", "1", "2">>, CharToCell("a"), <<"q", "1", "8">>, CharToCell("a"), "N"),
      TmCmd(<<"q", "1", "2">>, Blank, <<"q", "1", "9">>, Blank, "L"),
      TmCmd(<<"q", "1", "2">>, CharToCell("C"), <<"q", "1", "2">>, CharToCell("C"), "R"),
      TmCmd(<<"q", "1", "2">>, CharToCell("c"), <<"q", "1", "3">>, CharToCell("C"), "L")>>

\* the rules of preset_one_tape for state q13
OneTapeQ13 ==
    <<TmCmd(<<"q", "1", "3">>, CharToCell("C"), <<"q", "1", "3">>, CharToCell("C"), "L"),
      TmCmd(<<"q", "1", "3">>, CharToCell("B"), <<"q", "1", "4">>, CharToCell("B"), "N"),
      TmCmd(<<"q", "1", "3">>, CharToCell("b"), <<"q", "1", "4">>, CharToCell("b"), "N")>>

\* the rules of preset_one_tape for state q14
OneTapeQ14 ==
    <<TmCmd(<<"q", "1", "4">>, CharToCell("B"), <<"q", "1", "4">>, CharToCell("B"), "L"),
      TmCmd(<<"q", "1", "4">>, CharToCell("b"), <<"q", "1", "4">>, CharToCell("b"), "L"),
      TmCmd(<<"q", "1", "4">>, CharToCell("A"), <<"q", "1", "5">>, CharToCell("A"), "R"),
      TmCmd(<<"q", "1", "4">>, CharToCell("a"), <<"q", "1", "6">>, CharToCell("a"), "L")>>

\* the rules of preset_one_tape for state q15
OneTapeQ15 ==
    <<TmCmd(<<"q", "1", "5">>, CharToCell("b"), <<"q", "1", "5">>, CharToCell("b"), "R"),
      TmCmd(<<"q", "1", "5">>, CharToCell("B"), <<"q", "1", "5">>, CharToCell("B"), "R"),
      TmCmd(<<"q", "1", "5">>, CharToCell("c"), <<"q", "1", "7">>, CharToCell("c"), "N"),
      TmCmd(<<"q", "1", "5">>, CharToCell("C"), <<"q", "1", "7">>, CharToCell("C"), "N")>>

\* the rules of preset_one_tape for state q17
OneTapeQ17 ==
    <<TmCmd(<<"q", "1", "7">>, CharToCell("C"), <<"q", "1", "7">>, CharToCell("C"), "R"),
      TmCmd(<<"q", "1", "7">>, CharToCell("c"), <<"q", "1", "8">>, CharToCell("c"), "N"),
      TmCmd(<<"q", "1", "7">>, CharToCell("a"), <<"q", "1", "8">>, CharToCell("a"), "N"),
      TmCmd(<<"q", "1", "7">>, CharToCell("b"), <<"q", "1", "8">>, CharToCell("b"), "N"),
      TmCmd(<<"q", "1", "7">>, Blank, <<"q", "2", "1">>, Blank, "L")>>

\* the rules of preset_one_tape for state q16
OneTapeQ16 ==
    <<TmCmd(<<"q", "1", "6">>, CharToCell("a"), <<"q", "1", "6">>, CharToCell("a"), "L"),
      TmCmd(<<"q", "1", "6">>, CharToCell("A"), <<"q", "9">>, CharToCell("A"), "R")>>

\* the rules of preset_one_tape for state q18
OneTapeQ18 ==
    <<TmCmd(<<"q", "1", "8">>, CharToCell("a"), <<"q", "1", "8">>, CharToCell("a"), "R"),
      TmCmd(<<"q", "1", "8">>, CharToCell("b"), <<"q", "1", "8">>, CharToCell("b"), "R"),
      TmCmd(<<"q", "1", "8">>, CharToCell("c"), <<"q", "1", "8">>, CharToCell("c"), "R"),
      TmCmd(<<"q", "1", "8">>, CharToCell("A"), <<"q", "1", "8">>, CharToCell("A"), "R"),
      TmCmd(<<"q", "1", "8">>, CharToCell("B"), <<"q", "1", "8">>, CharToCell("B"), "R"),
      TmCmd(<<"q", "1", "8">>, CharToCell("C"), <<"q", "1", "8">>, CharToCell("C"), "R"),
      TmCmd(<<"q", "1", "8">>, Blank, <<"q", "1", "9">>, Blank, "L")>>

\* the rules of preset_one_tape for state q19
OneTapeQ19 ==
    <<TmCmd(<<"q", "1", "9">>, CharToCell("a"), <<"q", "1", "9">>, Blank, "L"),
      TmCmd(<<"q", "1", "9">>, CharToCell("b"), <<"q", "1", "9">>, Blank, "L"),
      TmCmd(<<"q", "1", "9">>, CharToCell("c"), <<"q", "1", "9">>, Blank, "L"),
      TmCmd(<<"q", "1", "9">>, CharToCell("A"), <<"q", "1", "9">>, Blank, "L"),
      TmCmd(<<"q", "1", "9">>, CharToCell("B"), <<"q", "1", "9">>, Blank, "L"),
      TmCmd(<<"q", "1", "9">>, CharToCell("C"), <<"q", "1", "9">>, Blank, "L"),
      TmCmd(<<"q", "1", "9">>, Blank, <<"q", "2", "0">>, Blank, "R")>>

\* the rules of preset_one_tape for state q20
OneTapeQ20 ==
    <<TmCmd(<<"q", "2", "0">>, Blank, <<"q", "z">>, CharToCell("0"), "N")>>

\* the rules of preset_one_tape for state q21
OneTapeQ21 ==
    <<TmCmd(<<"q", "2", "1">>, CharToCell("C"), <<"q", "2", "1">>, Blank, "L"),
      TmCmd(<<"q", "2", "1">>, CharToCell("b"), <<"q", "2", "1">>, Blank, "L"),
      TmCmd(<<"q", "2", "1">>, CharToCell("B"), <<"q", "2", "1">>, Blank, "L"),
      TmCmd(<<"q", "2", "1">>, CharToCell("A"), <<"q", "2", "1">>, Blank, "L"),
      TmCmd(<<"q", "2", "1">>, Blank, <<"q", "2", "2">>, Blank, "R")>>

\* the rules of preset_one_tape for state q22
OneTapeQ22 ==
    <<TmCmd(<<"q", "2", "2">>, Blank, <<"q", "z">>, CharToCell("1"), "N")>>

\* Application::preset_one_tape
PresetOneTape ==
    LET cmds ==
            OneTapeQ0 \o OneTapeQ1 \o OneTapeQ2 \o OneTapeQ3 \o
                OneTapeQ4 \o OneTapeQ5 \o OneTapeQ7 \o OneTapeQ6 \o
                OneTapeQ8 \o OneTapeQ9 \o OneTapeQ10 \o OneTapeQ11 \o
                OneTapeQ12 \o OneTapeQ13 \o OneTapeQ14 \o OneTapeQ15 \o
                OneTapeQ17 \o OneTapeQ16 \o OneTapeQ18 \o OneTapeQ19 \o
                OneTapeQ20 \o OneTapeQ21 \o OneTapeQ22
    IN  [i \in 1..Len(cmds) |-> MultiCommandFrom(cmds[i])]

\* the rules of preset_multitape for state q0
MultitapeQ0 ==
    <<TmMcmd(<<"q", "0">>, <<Blank, Blank>>, <<"q", "z">>,
            <<CharToCell("0"), Blank>>, <<"N", "N">>),
      TmMcmd(<<"q", "0">>, <<CharToCell("b"), Blank>>, <<"q", "6">>,
            <<CharToCell("b"), Blank>>, <<"R", "N">>),
      TmMcmd(<<"q", "0">>, <<CharToCell("c"), Blank>>, <<"q", "6">>,
            <<CharToCell("c"), Blank>>, <<"R", "N">>),
      TmMcmd(<<"q", "0">>, <<CharToCell("a"), Blank>>, <<"q", "1">>,
            <<CharToCell("a"), CharToCell("X")>>, <<"R", "R">>)>>

\* the rules of preset_multitape for state q1
MultitapeQ1 ==
    <<TmMcmd(<<"q", "1">>, <<CharToCell("a"), Blank>>, <<"q", "1">>,
            <<CharToCell("a"), CharToCell("X")>>, <<"R", "R">>),
      TmMcmd(<<"q", "1">>, <<CharToCell("b"), Blank>>, <<"q", "2">>,
            <<CharToCell("b"), Blank>>, <<"N", "L">>),
      TmMcmd(<<"q", "1">>, <<CharToCell("c"), Blank>>, <<"q", "6">>,
            <<CharToCell("c"), Blank>>, <<"R", "N">>),
      TmMcmd(<<"q", "1">>, <<Blank, Blank>>, <<"q", "7">>,
            <<Blank, Blank>>, <<"L", "N">>)>>

\* the rules of preset_multitape for state q2
MultitapeQ2 ==
    <<TmMcmd(<<"q", "2">>, <<CharToCell("b"), CharToCell("X")>>, <<"q", "2">>,
            <<CharToCell("b"), CharToCell("X")>>, <<"R", "L">>),
      TmMcmd(<<"q", "2">>, <<CharToCell("b"), Blank>>, <<"q", "3">>,
            <<CharToCell("b"), Blank>>, <<"R", "R">>),
      TmMcmd(<<"q", "2">>, <<CharToCell("c"), CharToCell("X")>>, <<"q", "5">>,
            <<CharToCell("c"), CharToCell("X")>>, <<"N", "N">>),
      TmMcmd(<<"q", "2">>, <<CharToCell("c"), Blank>>, <<"q", "6">>,
            <<CharToCell("c"), Blank>>, <<"R", "N">>),
      TmMcmd(<<"q", "2">>, <<Blank, CharToCell("X")>>, <<"q", "7">>,
            <<Blank, Blank>>, <<"L", "N">>),
      TmMcmd(<<"q", "2">>, <<Blank, Blank>>, <<"q", "7">>,
            <<Blank, Blank>>, <<"L", "N">>),
      TmMcmd(<<"q", "2">>, <<CharToCell("a"), CharToCell("X")>>, <<"q", "6">>,
            <<CharToCell("a"), Blank>>, <<"R", "N">>),
      TmMcmd(<<"q", "2">>, <<CharToCell("a"), Blank>>, <<"q", "6">>,
            <<CharToCell("a"), Blank>>, <<"R", "N">>)>>

\* the rules of preset_multitape for state q3
MultitapeQ3 ==
    <<TmMcmd(<<"q", "3">>, <<CharToCell("b"), CharToCell("X")>>, <<"q", "3">>,
            <<CharToCell("b"), CharToCell("X")>>, <<"R", "N">>),
      TmMcmd(<<"q", "3">>, <<CharToCell("c"), CharToCell("X")>>, <<"q", "4">>,
            <<CharToCell("c"), CharToCell("X")>>, <<"N", "N">>),
      TmMcmd(<<"q", "3">>, <<CharToCell("a"), CharToCell("X")>>, <<"q", "6">>,
            <<CharToCell("a"), Blank>>, <<"R", "N">>),
      TmMcmd(<<"q", "3">>, <<Blank, CharToCell("X")>>, <<"q", "7">>,
            <<Blank, Blank>>, <<"L", "N">>)>>

\* the rules of preset_multitape for state q4
MultitapeQ4 ==
    <<TmMcmd(<<"q", "4">>, <<CharToCell("c"), CharToCell("X")>>, <<"q", "4">>,
            <<CharToCell("c"), CharToCell("X")>>, <<"R", "R">>),
      TmMcmd(<<"q", "4">>, <<Blank, Blank>>, <<"q", "9">>,
            <<Blank, Blank>>, <<"L", "N">>),
      TmMcmd(<<"q", "4">>, <<Blank, CharToCell("X")>>, <<"q", "7">>,
            <<Blank, Blank>>, <<"L", "N">>),
      TmMcmd(<<"q", "4">>, <<CharToCell("a"), CharToCell("X")>>, <<"q", "6">>,
            <<CharToCell("a"), Blank>>, <<"R", "N">>),
      TmMcmd(<<"q", "4">>, <<CharToCell("a"), Blank>>, <<"q", "6">>,
            <<CharToCell("a"), Blank>>, <<"R", "N">>),
      TmMcmd(<<"q", "4">>, <<CharToCell("b"), CharToCell("X")>>, <<"q", "6">>,
            <<CharToCell("b"), Blank>>, <<"R", "N">>),
      TmMcmd(<<"q", "4">>, <<CharToCell("b"), Blank>>, <<"q", "6">>,
            <<CharToCell("b"), Blank>>, <<"R", "N">>),
      TmMcmd(<<"q", "4">>, <<CharToCell("c"), Blank>>, <<"q", "6">>,
            <<CharToCell("c"), Blank>>, <<"R", "N">>)>>

\* the rules of preset_multitape for state q5
MultitapeQ5 ==
    <<TmMcmd(<<"q", "5">>, <<CharToCell("c"), CharToCell("X")>>, <<"q", "5">>,
            <<CharToCell("c"), CharToCell("X")>>, <<"N", "L">>),
      TmMcmd(<<"q", "5">>, <<CharToCell("c"), Blank>>, <<"q", "4">>,
            <<CharToCell("c"), Blank>>, <<"N", "R">>)>>

\* the rules of preset_multitape for state q6
MultitapeQ6 ==
    <<TmMcmd(<<"q", "6">>, <<CharToCell("a"), Blank>>, <<"q", "6">>,
            <<CharToCell("a"), Blank>>, <<"R", "N">>),
      TmMcmd(<<"q", "6">>, <<CharToCell("b"), Blank>>, <<"q", "6">>,
            <<CharToCell("b"), Blank>>, <<"R", "N">>),
      TmMcmd(<<"q", "6">>, <<CharToCell("c"), Blank>>, <<"q", "6">>,
            <<CharToCell("c"), Blank>>, <<"R", "N">>),
      TmMcmd(<<"q", "6">>, <<Blank, Blank>>, <<"q", "7">>,
            <<Blank, Blank>>, <<"L", "N">>)>>

\* the rules of preset_multitape for state q7
MultitapeQ7 ==
    <<TmMcmd(<<"q", "7">>, <<CharToCell("c"), Blank>>, <<"q", "7">>,
            <<Blank, Blank>>, <<"L", "N">>),
      TmMcmd(<<"q", "7">>, <<CharToCell("b"), Blank>>, <<"q", "7">>,
            <<Blank, Blank>>, <<"L", "N">>),
      TmMcmd(<<"q", "7">>, <<CharToCell("a"), Blank>>, <<"q", "7">>,
            <<Blank, Blank>>, <<"L", "N">>),
      TmMcmd(<<"q", "7">>, <<Blank, Blank>>, <<"q", "8">>,
            <<Blank, Blank>>, <<"R", "N">>)>>

\* rules for state q8 that answer 1
MultitapeQ8WritesOne ==
    <<TmMcmd(<<"q", "8">>, <<Blank, Blank>>, <<"q", "z">>,
            <<CharToCell("1"), Blank>>, <<"N", "N">>)>>

\* the rules of preset_multitape for state q8
MultitapeQ8 ==
    <<TmMcmd(<<"q", "8">>, <<Blank, Blank>>, <<"q", "z">>,
            <<CharToCell("0"), Blank>>, <<"N", "N">>)>>

\* the rules of preset_multitape for state q9
MultitapeQ9 ==
    <<TmMcmd(<<"q", "9">>, <<CharToCell("a"), Blank>>, <<"q", "9">>,
            <<Blank, Blank>>, <<"L", "N">>),
      TmMcmd(<<"q", "9">>, <<CharToCell("b"), Blank>>, <<"q", "9">>,
            <<Blank, Blank>>, <<"L", "N">>),
      TmMcmd(<<"q", "9">>, <<CharToCell("c"), Blank>>, <<"q", "9">>,
            <<Blank, Blank>>, <<"L", "N">>),
      TmMcmd(<<"q", "9">>, <<Blank, Blank>>, <<"q", "1", "0">>,
            <<Blank, Blank>>, <<"R", "N">>)>>

\* the rules of preset_multitape for state q10
MultitapeQ10 ==
    <<TmMcmd(<<"q", "1", "0">>, <<Blank, Blank>>, <<"q", "z">>,
            <<CharToCell("1"), Blank>>, <<"N", "N">>)>>

\* Application::preset_multitape
PresetMultitape ==
    MultitapeQ0 \o MultitapeQ1 \o MultitapeQ2 \o MultitapeQ3 \o
        MultitapeQ4 \o MultitapeQ5 \o MultitapeQ6 \o MultitapeQ7 \o
        MultitapeQ8 \o MultitapeQ9 \o MultitapeQ10

\* the words of test_one_tape_3..19, each with
\* the snapshot its test expects at the end
OneTapeTests ==
    {<<<<"a", "a", "b", "c", "c">>, <<"q", "z", "1">>>>,
     <<<<"a", "b", "b", "c">>, <<"q", "z", "1">>>>,
     <<<<"a", "b", "a", "b", "c">>, <<"q", "z", "0">>>>,
     <<<<"a", "b", "c", "b", "c">>, <<"q", "z", "0">>>>,
     <<<<"a", "a", "a", "b", "b", "c", "c", "c">>, <<"q", "z", "1">>>>,
     <<<<"a", "a", "a", "b", "b", "c", "c", "a", "c">>, <<"q", "z", "0">>>>,
     <<<<"a", "a", "a", "b", "b", "c", "c", "c", "a">>, <<"q", "z", "0">>>>,
     <<<<"a", "a", "a", "b", "b", "c", "c", "c", "b">>, <<"q", "z", "0">>>>,
     <<<<"a", "a", "a", "b", "b", "c", "c", "c", "c">>, <<"q", "z", "0">>>>,
     <<<<"a", "a", "a", "a", "b", "b", "c", "c", "c">>, <<"q", "z", "0">>>>,
     <<<<"a", "a", "a", "a", "b", "b", "b", "b", "c", "c", "c">>, <<"q", "z", "0">>>>,
     <<<<"a", "b", "c", "b", "a", "b", "a", "b", "c", "c", "b">>, <<"q", "z", "0">>>>,
     <<<<"a", "a", "a", "b", "b", "b">>, <<"q", "z", "0">>>>,
     <<<<"a", "a", "a", "b", "b", "b", "a">>, <<"q", "z", "0">>>>,
     <<<<"a", "a", "a", "b", "c", "c", "c">>, <<"q", "z", "1">>>>,
     <<<<"a", "b", "b", "b", "b", "c">>, <<"q", "z", "1">>>>,
     <<<<"a", "b", "b", "b", "b", "c", "c">>, <<"q", "z", "0">>>>}

\* the words of test_multitape_3..12, each
\* with the snapshot of tape 0 its test expects at the end
MultitapeTests ==
    {<<<<"a", "a", "b", "b", "c", "c">>, <<"q", "z", "0">>>>,
     <<<<"a", "a", "b", "b", "b", "c", "c">>, <<"q", "z", "1">>>>,
     <<<<"a", "a", "a", "b", "b", "c", "c", "c">>, <<"q", "z", "1">>>>,
     <<<<"a", "a", "a", "b", "b", "c", "a", "c", "c">>, <<"q", "z", "0">>>>,
     <<<<"a", "a", "a", "b", "b", "c", "c", "b", "c">>, <<"q", "z", "0">>>>,
     <<<<"a", "a", "a", "a", "c", "c", "c", "c", "a">>, <<"q", "z", "0">>>>,
     <<<<"a", "a", "b", "b", "b", "b", "c">>, <<"q", "z", "0">>>>,
     <<<<"a", "b", "b", "b", "b", "c">>, <<"q", "z", "1">>>>,
     <<<<"a", "b", "b", "b", "b", "c", "c">>, <<"q", "z", "0">>>>,
     <<<<"a", "a", "a", "b", "b", "b", "c", "c", "c">>, <<"q", "z", "0">>>>}

----------------------------------------------------------------------------
(* The machine and its operations                                          *)

Built == tm # NoMachine

\* the content of position p of a tape
CellAt(t, p) == IF p \in DOMAIN t.tape THEN t.tape[p] ELSE Blank

\* the cells under the heads of a machine
HeadCells(m) == [i \in 1..Len(m.tapes) |-> CellAt(m.tapes[i], m.tapes[i].head)]

\* the transition seen between a machine and its successor: the state and the
\* cells under the heads before, the state after, the cells found afterwards
\* where the heads were, and the distance each head moved
Taken(m, n) ==
    <<m.current_state, HeadCells(m), n.current_state,
      [i \in 1..Len(m.tapes) |-> CellAt(n.tapes[i], m.tapes[i].head)],
      [i \in 1..Len(m.tapes) |-> n.tapes[i].head - m.tapes[i].head]>>

Unit == <<"Unit">>

\* the value of a variable of an object the specification does not drive
Unused == <<"unused">>

NoTape ==
    /\ solo = Unused
    /\ solo_op = Unused
    /\ solo_arg = Unused
    /\ solo_ret = Unused
    /\ origin = Unused
    /\ content = Unused

NoCursor ==
    /\ cursor = Unused
    /\ word_op = Unused
    /\ word = Unused
    /\ yielded = Unused

NoMachineRun ==
    /\ tm = NoMachine
    /\ op = "init"
    /\ args = <<>>
    /\ ret = Unit
    /\ fired = {}

NoMultiCommand ==
    /\ mcmd = Unused
    /\ mcmd_op = Unused
    /\ mcmd_args = Unused
    /\ mcmd_ret = Unused
    /\ mcmd_before = Unused

NoSession ==
    /\ exec = Unused
    /\ plot = Unused
    /\ editor = Unused

\* none of the objects added to the model last is driven
NoMore ==
    /\ steps = Unused
    /\ NoMultiCommand
    /\ NoSession

Init ==
    /\ NoMachineRun
    /\ NoTape
    /\ NoCursor
    /\ NoMore

\* TuringMachine::new(start_tapes, start_state, program)
New ==
    /\ op = "init"
    /\ \E start_tapes \in NewTapeVecs, start_state \in States,
          program \in Programs :
          \E first_state \in
                (IF DOMAIN program = {} THEN {q0} ELSE DOMAIN program) :
          \E first_key \in
                (IF DOMAIN program = {} THEN {<<>>}
                 ELSE IF DOMAIN program[first_state] = {} THEN {<<>>}
                 ELSE DOMAIN program[first_state]) :
             /\ LET r == TMNew(start_tapes, start_state, program,
                               first_state, first_key)
                IN  /\ tm' = r.tm
                    /\ ret' = r.ret
             /\ args' = [start_tapes |-> start_tapes,
                         start_state |-> start_state, program |-> program]
    /\ op' = "new"
    /\ fired' = {}
    /\ UNCHANGED <<solo_vars, cursor_vars, more_vars>>

\* TuringMachine::from(start_tape, commands)
From ==
    /\ op = "init"
    /\ \E start_tape \in Words, commands \in SeqsUpTo(Commands, MaxCmds) :
          /\ LET r == TMFrom(start_tape, commands)
             IN  /\ tm' = r.tm
                 /\ ret' = r.ret
          /\ args' = [start_tape |-> start_tape, commands |-> commands]
    /\ op' = "from"
    /\ fired' = {}
    /\ UNCHANGED <<solo_vars, cursor_vars, more_vars>>

\* TuringMachine::from_multi(start_tapes, commands)
FromMulti ==
    /\ op = "init"
    /\ \E start_tapes \in TapeVecs,
          commands \in SeqsUpTo(ValidMultiCommands, MaxCmds) :
          /\ LET r == TMFromMulti(start_tapes, commands)
             IN  /\ tm' = r.tm
                 /\ ret' = r.ret
          /\ args' = [start_tapes |-> start_tapes, commands |-> commands]
    /\ op' = "from_multi"
    /\ fired' = {}
    /\ UNCHANGED <<solo_vars, cursor_vars, more_vars>>

\* TuringMachine::restart(start_tapes, start_state)
Restart ==
    /\ Built
    /\ \E start_tapes \in RestartTapeVecs, start_state \in States :
          /\ LET r == TMRestart(tm, start_tapes, start_state)
             IN  /\ tm' = r.tm
                 /\ ret' = r.ret
          /\ args' = [start_tapes |-> start_tapes,
                      start_state |-> start_state]
    /\ op' = "restart"
    /\ UNCHANGED <<fired, solo_vars, cursor_vars, more_vars>>

\* TuringMachine::next
Next_ ==
    /\ Built
    /\ \A i \in 1..Len(tm.tapes) :
          tm.tapes[i].head \in (0 - MaxHead)..MaxHead
    /\ LET r == TMNext(tm)
       IN  /\ tm' = r.tm
           /\ ret' = r.ret
           /\ fired' = IF r.ret = None THEN fired
                       ELSE fired \cup {Taken(tm, r.tm)}
    /\ args' = <<>>
    /\ op' = "next"
    /\ UNCHANGED <<solo_vars, cursor_vars, more_vars>>

Next == New \/ From \/ FromMulti \/ Restart \/ Next_

Spec == Init /\ [][Next]_vars

TypeOK == op \in {"init", "new", "from", "from_multi", "restart", "next"}

----------------------------------------------------------------------------
(* A tape on its own and its operations                                    *)

\* the positions a tape of the model can hold a cell at or have its head on
Positions == (0 - MaxHead - 2)..(MaxHead + MaxLen + 2)

\* the cells an initial string puts on the tape: character n at position n
Initial(value) ==
    [p \in Positions |->
        IF p \in 0..(Len(value) - 1) THEN CharToCell(value[p + 1]) ELSE Blank]

\* Tape::new() or Tape::from(value)
InitTape ==
    /\ \/ /\ solo = TapeNew
          /\ solo_op = "new"
          /\ solo_arg = <<>>
          /\ origin = <<"new">>
          /\ content = Initial(<<>>)
       \/ \E value \in Words :
             /\ solo = TapeFrom(value)
             /\ solo_op = "from"
             /\ solo_arg = value
             /\ origin = <<"from", value>>
             /\ content = Initial(value)
    /\ solo_ret = Unit
    /\ NoMachineRun
    /\ NoCursor
    /\ NoMore

\* Tape::write(cell)
Write ==
    /\ \E cell \in SoloCells :
          /\ solo' = TapeWrite(solo, cell)
          /\ solo_arg' = cell
          /\ content' = [content EXCEPT ![solo.head] = cell]
    /\ solo_op' = "write"
    /\ solo_ret' = Unit
    /\ UNCHANGED <<origin, machine_vars, cursor_vars, more_vars>>

\* Tape::left
Left ==
    /\ solo.head > 0 - MaxHead
    /\ solo' = TapeLeft(solo)
    /\ solo_op' = "left"
    /\ solo_arg' = <<>>
    /\ solo_ret' = Unit
    /\ UNCHANGED <<origin, content, machine_vars, cursor_vars, more_vars>>

\* Tape::right
Right ==
    /\ solo.head < MaxHead
    /\ solo' = TapeRight(solo)
    /\ solo_op' = "right"
    /\ solo_arg' = <<>>
    /\ solo_ret' = Unit
    /\ UNCHANGED <<origin, content, machine_vars, cursor_vars, more_vars>>

\* Tape::get
Get ==
    /\ solo_ret' = TapeGet(solo)
    /\ solo_op' = "get"
    /\ solo_arg' = <<>>
    /\ UNCHANGED <<solo, origin, content, machine_vars, cursor_vars, more_vars>>

\* Tape::to_string_with_state(state)
ToStringWithState_ ==
    /\ \E state \in Labels :
          /\ solo_ret' = ToStringWithState(solo, state)
          /\ solo_arg' = state
    /\ solo_op' = "to_string_with_state"
    /\ UNCHANGED <<solo, origin, content, machine_vars, cursor_vars, more_vars>>

NextTape == Write \/ Left \/ Right \/ Get \/ ToStringWithState_

SpecTape == InitTape /\ [][NextTape]_vars

----------------------------------------------------------------------------
(* A MultiCommand and its operations                                       *)

\* what mcmd holds when new has returned an error
NoCommand ==
    [istate |-> <<>>, icells |-> <<>>, ostate |-> <<>>, ocells |-> <<>>,
     directions |-> <<>>, length |-> 0]

\* the tuples MultiCommand::new is called with, of any lengths
NewArgs ==
    {[istate |-> q0, icells |-> ic, ostate |-> q1, ocells |-> oc,
      directions |-> d] :
        ic \in SeqsUpTo(Cells, MaxTapes), oc \in SeqsUpTo(Cells, MaxTapes),
        d \in SeqsUpTo({"None", "Right"}, MaxTapes)}

\* MultiCommand::new(istate, icells, ostate, ocells, directions) or
\* MultiCommand::from(command)
InitCommand ==
    /\ \/ \E a \in NewArgs :
             /\ mcmd_args = a
             /\ mcmd_op = "new"
             /\ mcmd_ret = MultiCommandNew(a.istate, a.icells, a.ostate,
                                           a.ocells, a.directions)
             /\ mcmd = IF IsErr(mcmd_ret) THEN NoCommand
                       ELSE MultiCommand(a.istate, a.icells, a.ostate,
                                         a.ocells, a.directions)
       \/ \E value \in Commands :
             /\ mcmd_args = value
             /\ mcmd_op = "from"
             /\ mcmd_ret = Unit
             /\ mcmd = MultiCommandFrom(value)
    /\ mcmd_before = NoCommand
    /\ NoMachineRun
    /\ NoTape
    /\ NoCursor
    /\ steps = Unused
    /\ NoSession

\* MultiCommand::add_tape
AddTape ==
    /\ mcmd # NoCommand
    /\ mcmd.length < MaxSlots
    /\ mcmd' = MultiCommandAddTape(mcmd)
    /\ mcmd_op' = "add_tape"
    /\ mcmd_ret' = Unit
    /\ mcmd_before' = mcmd
    /\ UNCHANGED <<mcmd_args, machine_vars, solo_vars, cursor_vars, steps,
                   exec, plot, editor>>

\* MultiCommand::remove_tape
RemoveTape ==
    /\ mcmd # NoCommand
    /\ mcmd' = MultiCommandRemoveTape(mcmd)
    /\ mcmd_op' = "remove_tape"
    /\ mcmd_ret' = Unit
    /\ mcmd_before' = mcmd
    /\ UNCHANGED <<mcmd_args, machine_vars, solo_vars, cursor_vars, steps,
                   exec, plot, editor>>

NextCommand == AddTape \/ RemoveTape

SpecCommand == InitCommand /\ [][NextCommand]_vars

----------------------------------------------------------------------------
(* A word cursor and its operation                                         *)

\* chars.get_exhaustive_words(n)
InitWords ==
    /\ \E chars \in Alphabets, n \in 0..MaxWordLen :
          cursor = ExhaustiveWordsIterNew(chars, n)
    /\ word_op = "get_exhaustive_words"
    /\ word = Unit
    /\ yielded = <<>>
    /\ NoMachineRun
    /\ NoTape
    /\ NoMore

\* ExhaustiveWordsIter::next; a panic ends the thread that owns the cursor
NextWord ==
    /\ word # Panic
    /\ LET r == ExhaustiveWordsIterNext(cursor)
       IN  /\ cursor' = r.it
           /\ word' = r.ret
           /\ yielded' = IF r.ret[1] = "Some" THEN Append(yielded, r.ret[2])
                         ELSE yielded
    /\ word_op' = "next"
    /\ UNCHANGED <<machine_vars, solo_vars, more_vars>>

NextWords == NextWord

SpecWords == InitWords /\ [][NextWords]_vars

----------------------------------------------------------------------------
(* A preset or test machine run to its halt                                *)

\* c repeated n times
Repeat(c, n) == [i \in 1..n |-> c]

\* the first components of a set of pairs
Firsts(pairs) == {p[1] : p \in pairs}

\* the initial words a machine of the given kind is run on
RunInputs(kind) ==
    CASE kind = "copy" -> {Repeat("a", n) : n \in 0..MaxRunLen}
      [] kind = "complement" -> SeqsUpTo({"0", "1"}, MaxRunLen)
      [] kind = "one_tape" ->
            SeqsUpTo({"a", "b", "c"}, MaxRunLen) \cup Firsts(OneTapeTests)
      [] kind = "multitape" ->
            SeqsUpTo({"a", "b", "c"}, MaxRunLen) \cup Firsts(MultitapeTests)

\* the construction the tests and start_tm use for a machine of each kind
Start(kind, w) ==
    CASE kind = "copy" -> TMFrom(w, CopyCommands)
      [] kind = "complement" -> TMFrom(w, ComplementCommands)
      [] kind = "one_tape" -> TMFromMulti(<<w>>, PresetOneTape)
      [] kind = "multitape" -> TMFromMulti(<<w, <<>>>>, PresetMultitape)

\* no machine is built yet
InitRun ==
    /\ tm = NoMachine
    /\ op = "init"
    /\ args = [kind |-> "none", word |-> <<>>]
    /\ ret = Unit
    /\ fired = {}
    /\ steps = 0
    /\ NoTape
    /\ NoCursor
    /\ NoMultiCommand
    /\ NoSession

\* a machine of one kind is built on one initial word
RunStart ==
    /\ op = "init"
    /\ \E kind \in {"copy", "complement", "one_tape", "multitape"} :
       \E w \in RunInputs(kind) :
          /\ tm' = Start(kind, w).tm
          /\ ret' = Start(kind, w).ret
          /\ args' = [kind |-> kind, word |-> w]
    /\ op' = "from"
    /\ UNCHANGED <<fired, steps, solo_vars, cursor_vars, command_vars, exec,
                   plot, editor>>

\* one turn of the loop that drives the machine as an iterator: it calls
\* next until next returns None
RunNext ==
    /\ Built
    /\ ret # None
    /\ steps < MaxSteps
    /\ LET r == TMNext(tm)
       IN  /\ tm' = r.tm
           /\ ret' = r.ret
           /\ steps' = IF r.ret = None THEN steps ELSE steps + 1
    /\ op' = "next"
    /\ UNCHANGED <<args, fired, solo_vars, cursor_vars, command_vars, exec,
                   plot, editor>>

NextRun == RunStart \/ RunNext

SpecRun == InitRun /\ [][NextRun]_vars

----------------------------------------------------------------------------
(* main.rs: the plotting session, start_plot and its worker thread         *)

\* the command that add_command appends, for one tape: it stays on a Blank
AddedCommand ==
    MultiCommand(<<>>, <<Blank>>, <<>>, <<Blank>>, <<"None">>)

\* a rule table that erases the a's of its input and halts after them
HaltCommands ==
    <<MultiCommand(<<>>, <<Symbol("a")>>, <<>>, <<Blank>>, <<"Right">>)>>

\* a rule table that never halts: it stays where it is on Blank and on a
LoopCommands ==
    <<AddedCommand,
      MultiCommand(<<>>, <<Symbol("a")>>, <<>>, <<Symbol("a")>>, <<"None">>)>>

\* the rule tables a plotting session is started with; remove_command can
\* leave the table empty
PlotCommands == {<<>>, HaltCommands, LoopCommands}

\* the primary alphabets a plotting session is started with
PlotAlphabets == {<<>>, <<"a">>, <<"a", "b">>}

\* the session before start_plot was ever called
IdlePlot ==
    [pc |-> "idle", is_tm_plotting |-> FALSE,
     is_tm_stop_plot_requested |-> FALSE, tm_plot_points |-> <<>>,
     alphabet |-> <<>>, tm_commands |-> <<>>, start_state |-> <<>>,
     n |-> 0, max_steps |-> 0, steps |-> 0, polled |-> 0,
     asked |-> FALSE, since |-> 0]

InitPlot ==
    /\ plot = IdlePlot
    /\ tm = NoMachine
    /\ op = "init"
    /\ args = <<>>
    /\ ret = Unit
    /\ fired = {}
    /\ cursor = Unit
    /\ word_op = Unused
    /\ word = Unused
    /\ yielded = Unused
    /\ NoTape
    /\ steps = Unused
    /\ NoMultiCommand
    /\ exec = Unused
    /\ editor = Unused

\* what no action of the plotting session changes
PlotFrame ==
    UNCHANGED <<op, args, ret, fired, word_op, word, yielded, solo_vars,
                steps, command_vars, exec, editor>>

\* the worker thread is between its first and its last statement
PlotWorkerRuns ==
    plot.pc \notin {"idle", "ui_panicked", "panicked", "done"}

\* start_plot, which the button offers while is_tm_plotting is false;
\* tm_commands[0] panics in the thread of the interface when the rule table
\* is empty, after the flag is set
StartPlot ==
    /\ plot.pc \in {"idle", "done"}
    /\ ~plot.is_tm_plotting
    /\ \E alphabet \in PlotAlphabets, tm_commands \in PlotCommands :
          plot' = IF tm_commands = <<>>
                  THEN [plot EXCEPT !.is_tm_plotting = TRUE,
                                    !.tm_plot_points = <<>>,
                                    !.tm_commands = tm_commands,
                                    !.alphabet = alphabet,
                                    !.pc = "ui_panicked"]
                  ELSE [plot EXCEPT !.is_tm_plotting = TRUE,
                                    !.tm_plot_points = <<>>,
                                    !.tm_commands = tm_commands,
                                    !.alphabet = alphabet,
                                    !.start_state = tm_commands[1].istate,
                                    !.n = 0, !.max_steps = 0, !.steps = 0,
                                    !.polled = 0, !.asked = FALSE,
                                    !.since = 0,
                                    !.pc = "build"]
    /\ UNCHANGED <<tm, cursor>>
    /\ PlotFrame

\* request_stop_plot; the button is offered on the value of is_tm_plotting
\* read at the start of the frame, so the call can come after the worker's
\* last statement.  asked records a request made while the worker runs
RequestStopPlot ==
    /\ plot.pc \notin {"idle", "ui_panicked"}
    /\ plot' = [plot EXCEPT !.is_tm_stop_plot_requested = TRUE,
                            !.asked = @ \/ PlotWorkerRuns]
    /\ UNCHANGED <<tm, cursor>>
    /\ PlotFrame

\* the worker: TuringMachine::from_multi(&vec![""; num_tapes], ..).unwrap()
PlotBuild ==
    /\ plot.pc = "build"
    /\ LET r == TMFromMulti(<<<<>>>>, plot.tm_commands)
       IN  IF IsErr(r.ret)
           THEN /\ plot' = [plot EXCEPT !.pc = "panicked"]
                /\ UNCHANGED tm
           ELSE /\ plot' = [plot EXCEPT !.pc = "outer", !.n = 1]
                /\ tm' = r.tm
    /\ UNCHANGED cursor
    /\ PlotFrame

\* the worker: the head of 'outer, for one length n
PlotOuter ==
    /\ plot.pc = "outer"
    /\ plot.n <= MaxPlotLen
    /\ plot' = [plot EXCEPT !.max_steps = 0, !.pc = "words"]
    /\ cursor' = ExhaustiveWordsIterNew(plot.alphabet, plot.n)
    /\ UNCHANGED tm
    /\ PlotFrame

\* the worker: the cursor's next and, for a word, the restart of the
\* machine on it; a panic ends the thread
PlotWord ==
    /\ plot.pc = "words"
    /\ LET r == ExhaustiveWordsIterNext(cursor)
           restarted == TMRestart(tm, <<r.ret[2]>>, plot.start_state)
       IN  /\ cursor' = r.it
           /\ IF r.ret = Panic
              THEN /\ plot' = [plot EXCEPT !.pc = "panicked"]
                   /\ UNCHANGED tm
              ELSE IF r.ret = None
              THEN /\ plot' = [plot EXCEPT !.pc = "push"]
                   /\ UNCHANGED tm
              ELSE IF IsErr(restarted.ret)
              THEN /\ plot' = [plot EXCEPT !.pc = "panicked"]
                   /\ UNCHANGED tm
              ELSE /\ plot' = [plot EXCEPT !.steps = 0, !.polled = 0,
                                           !.pc = "block"]
                   /\ tm' = restarted.tm
    /\ PlotFrame

\* the worker: one turn of for _ in 0..500, a call of next
PlotStep ==
    /\ plot.pc = "block"
    /\ plot.polled < PollPeriod
    /\ plot.steps < MaxTrialSteps
    /\ LET r == TMNext(tm)
       IN  /\ tm' = r.tm
           /\ plot' = IF r.ret = Panic
                      THEN [plot EXCEPT !.pc = "panicked"]
                      ELSE IF r.ret = None
                      THEN [plot EXCEPT !.pc = "after_trial"]
                      ELSE [plot EXCEPT
                              !.steps = @ + 1,
                              !.polled = @ + 1,
                              !.since = IF plot.asked THEN @ + 1 ELSE @]
    /\ UNCHANGED cursor
    /\ PlotFrame

\* the worker: enough() after the 500 turns
PlotPoll ==
    /\ plot.pc = "block"
    /\ plot.polled = PollPeriod
    /\ plot' = IF plot.is_tm_stop_plot_requested
               THEN [plot EXCEPT !.pc = "clear_stop"]
               ELSE [plot EXCEPT !.polled = 0]
    /\ UNCHANGED <<tm, cursor>>
    /\ PlotFrame

\* a worker that keeps the steps of the last trial, not the largest
PlotAfterTrialKeepsLast ==
    /\ plot.pc = "after_trial"
    /\ plot' = IF plot.is_tm_stop_plot_requested
               THEN [plot EXCEPT !.pc = "clear_stop"]
               ELSE [plot EXCEPT !.max_steps = plot.steps, !.pc = "words"]
    /\ UNCHANGED <<tm, cursor>>
    /\ PlotFrame

\* the worker: enough() after a trial that halted, then max_steps
PlotAfterTrial ==
    /\ plot.pc = "after_trial"
    /\ plot' = IF plot.is_tm_stop_plot_requested
               THEN [plot EXCEPT !.pc = "clear_stop"]
               ELSE [plot EXCEPT !.max_steps = Max(@, plot.steps),
                                 !.pc = "words"]
    /\ UNCHANGED <<tm, cursor>>
    /\ PlotFrame

\* the worker: tm_plot_points.push([n, max_steps])
PlotPush ==
    /\ plot.pc = "push"
    /\ plot' = [plot EXCEPT
                  !.tm_plot_points = Append(@, <<plot.n, plot.max_steps>>),
                  !.pc = "check"]
    /\ UNCHANGED <<tm, cursor>>
    /\ PlotFrame

\* the worker: enough() at the end of 'outer
PlotCheck ==
    /\ plot.pc = "check"
    /\ plot' = IF plot.is_tm_stop_plot_requested
               THEN [plot EXCEPT !.pc = "clear_stop"]
               ELSE [plot EXCEPT !.n = @ + 1, !.pc = "outer"]
    /\ UNCHANGED <<tm, cursor>>
    /\ PlotFrame

\* the worker: is_tm_stop_plot_requested.store(false)
PlotClearStop ==
    /\ plot.pc = "clear_stop"
    /\ plot' = [plot EXCEPT !.is_tm_stop_plot_requested = FALSE,
                            !.pc = "clear_plotting"]
    /\ UNCHANGED <<tm, cursor>>
    /\ PlotFrame

\* the worker: is_tm_plotting.store(false), its last statement
PlotClearPlotting ==
    /\ plot.pc = "clear_plotting"
    /\ plot' = [plot EXCEPT !.is_tm_plotting = FALSE, !.pc = "done"]
    /\ UNCHANGED <<tm, cursor>>
    /\ PlotFrame

NextPlot ==
    \/ StartPlot
    \/ RequestStopPlot
    \/ PlotBuild
    \/ PlotOuter
    \/ PlotWord
    \/ PlotStep
    \/ PlotPoll
    \/ PlotAfterTrial
    \/ PlotPush
    \/ PlotCheck
    \/ PlotClearStop
    \/ PlotClearPlotting

SpecPlot == InitPlot /\ [][NextPlot]_vars

----------------------------------------------------------------------------
(* main.rs: the execution session, start_tm and its worker thread          *)

\* the initial words of tape 0 an execution is started on
ExecInputs == {<<>>, <<"a">>}

\* the session before start_tm was ever called; started keeps the machine
\* as start_tm built it
IdleExec ==
    [pc |-> "idle", is_tm_running |-> FALSE, is_tm_stop_requested |-> FALSE,
     tm_protocol |-> <<>>, strings |-> <<>>, halted |-> FALSE,
     asked |-> FALSE, initial_since |-> 0, steps_since |-> 0, moves |-> 0,
     started |-> NoMachine]

InitExec ==
    /\ exec = IdleExec
    /\ tm = NoMachine
    /\ op = "init"
    /\ args = <<>>
    /\ ret = Unit
    /\ fired = {}
    /\ NoTape
    /\ NoCursor
    /\ steps = Unused
    /\ NoMultiCommand
    /\ plot = Unused
    /\ editor = Unused

\* what no action of the execution session changes
ExecFrame ==
    UNCHANGED <<op, args, ret, fired, solo_vars, cursor_vars, steps,
                command_vars, plot, editor>>

\* the worker thread is between its first and its last statement
ExecWorkerRuns == exec.pc \notin {"idle", "panicked", "done"}

\* a statement of the worker, counted once a stop was requested
Moved(e) == [e EXCEPT !.moves = IF e.asked THEN @ + 1 ELSE @]

\* start_tm, which the button offers while is_tm_running is false; it
\* returns at once when the rule table is empty
StartTm ==
    /\ exec.pc \in {"idle", "done"}
    /\ ~exec.is_tm_running
    /\ \E tm_input \in ExecInputs, tm_commands \in PlotCommands :
          IF tm_commands = <<>>
          THEN UNCHANGED <<exec, tm>>
          ELSE LET r == TMFromMulti(<<tm_input>>, tm_commands)
               IN  /\ tm' = r.tm
                   /\ exec' = [exec EXCEPT
                                 !.is_tm_running = TRUE,
                                 !.tm_protocol = <<>>,
                                 !.strings = <<>>,
                                 !.halted = FALSE,
                                 !.asked = FALSE,
                                 !.initial_since = 0,
                                 !.steps_since = 0,
                                 !.moves = 0,
                                 !.started = r.tm,
                                 !.pc = IF IsErr(r.ret) THEN "ui_panicked"
                                        ELSE "push_initial"]
    /\ ExecFrame

\* request_stop_tm; the button is offered on the value of is_tm_running read
\* at the start of the frame, so the call can come after the worker's last
\* statement.  asked records a request made while the worker runs
RequestStopTm ==
    /\ exec.pc \notin {"idle", "ui_panicked"}
    /\ exec' = [exec EXCEPT !.is_tm_stop_requested = TRUE,
                            !.asked = @ \/ ExecWorkerRuns]
    /\ UNCHANGED tm
    /\ ExecFrame

\* the worker: tm_protocol.push(tm.to_strings())
ExecPushInitial ==
    /\ exec.pc = "push_initial"
    /\ exec' = IF ToStrings(tm) = Panic
               THEN [exec EXCEPT !.pc = "panicked"]
               ELSE Moved([exec EXCEPT
                             !.tm_protocol = Append(@, ToStrings(tm)),
                             !.initial_since =
                                 IF exec.asked THEN @ + 1 ELSE @,
                             !.pc = "next"])
    /\ UNCHANGED tm
    /\ ExecFrame

\* the worker: the call of next that for strings in tm makes
ExecNext ==
    /\ exec.pc = "next"
    /\ Len(exec.tm_protocol) < MaxProtocol
    /\ LET r == TMNext(tm)
       IN  /\ tm' = r.tm
           /\ exec' = IF r.ret = Panic
                      THEN [exec EXCEPT !.pc = "panicked"]
                      ELSE IF r.ret = None
                      THEN Moved([exec EXCEPT !.halted = TRUE,
                                              !.pc = "clear_stop"])
                      ELSE Moved([exec EXCEPT !.strings = r.ret[2],
                                              !.pc = "push"])
    /\ ExecFrame

\* a worker that puts each snapshot in front of the ones it has pushed
ExecPushFront ==
    /\ exec.pc = "push"
    /\ exec' = Moved([exec EXCEPT
                        !.tm_protocol = <<exec.strings>> \o @,
                        !.steps_since = IF exec.asked THEN @ + 1 ELSE @,
                        !.pc = "check"])
    /\ UNCHANGED tm
    /\ ExecFrame

\* the worker: tm_protocol.push(strings)
ExecPush ==
    /\ exec.pc = "push"
    /\ exec' = Moved([exec EXCEPT
                        !.tm_protocol = Append(@, exec.strings),
                        !.steps_since = IF exec.asked THEN @ + 1 ELSE @,
                        !.pc = "check"])
    /\ UNCHANGED tm
    /\ ExecFrame

\* a worker that goes on to the next step whatever the stop flag says
ExecCheckIgnoresStop ==
    /\ exec.pc = "check"
    /\ exec' = Moved([exec EXCEPT !.pc = "next"])
    /\ UNCHANGED tm
    /\ ExecFrame

\* the worker: if is_tm_stop_requested.load() { break; }
ExecCheck ==
    /\ exec.pc = "check"
    /\ exec' = Moved([exec EXCEPT
                        !.pc = IF exec.is_tm_stop_requested
                               THEN "clear_stop" ELSE "next"])
    /\ UNCHANGED tm
    /\ ExecFrame

\* the worker: is_tm_stop_requested.store(false)
ExecClearStop ==
    /\ exec.pc = "clear_stop"
    /\ exec' = Moved([exec EXCEPT !.is_tm_stop_requested = FALSE,
                                  !.pc = "clear_running"])
    /\ UNCHANGED tm
    /\ ExecFrame

\* the worker: is_tm_running.store(false), its last statement
ExecClearRunning ==
    /\ exec.pc = "clear_running"
    /\ exec' = Moved([exec EXCEPT !.is_tm_running = FALSE, !.pc = "done"])
    /\ UNCHANGED tm
    /\ ExecFrame

NextExec ==
    \/ StartTm
    \/ RequestStopTm
    \/ ExecPushInitial
    \/ ExecNext
    \/ ExecPush
    \/ ExecCheck
    \/ ExecClearStop
    \/ ExecClearRunning

SpecExec == InitExec /\ [][NextExec]_vars

----------------------------------------------------------------------------
(* main.rs: the editor of the rule table                                   *)

Presets == {"OneTape", "MultiTape"}

\* Application::new: the one-tape preset, one tape; added counts the calls
\* of add_command since the table was last set, panicked is an unwrap that
\* failed in the thread of the interface
NewEditor ==
    [tm_preset |-> "OneTape", num_tapes |-> 1,
     tm_commands |-> PresetOneTape,
     tm_alphabet_primary |-> <<"a", "b", "c">>,
     tm_alphabet_secondary |-> <<"0", "1", "A", "B", "C">>,
     tm_input |-> <<>>, tm_protocol |-> <<>>,
     added |-> 0, panicked |-> FALSE]

InitEditor ==
    /\ editor = NewEditor
    /\ NoMachineRun
    /\ NoTape
    /\ NoCursor
    /\ steps = Unused
    /\ NoMultiCommand
    /\ exec = Unused
    /\ plot = Unused

\* what no action of the editor changes
EditorFrame ==
    UNCHANGED <<machine_vars, solo_vars, cursor_vars, steps, command_vars,
                exec, plot>>

\* vec![x; n]
Vec(x, n) == [i \in 1..n |-> x]

\* add_command
EditorAddCommand ==
    /\ ~editor.panicked
    /\ editor.added < MaxAdded
    /\ LET n == editor.num_tapes
           r == MultiCommandNew(<<>>, Vec(Blank, n), <<>>, Vec(Blank, n),
                                Vec("None", n))
       IN  editor' =
             IF IsErr(r) THEN [editor EXCEPT !.panicked = TRUE]
             ELSE [editor EXCEPT
                     !.tm_commands =
                         Append(@, MultiCommand(<<>>, Vec(Blank, n), <<>>,
                                                Vec(Blank, n),
                                                Vec("None", n))),
                     !.tm_protocol = <<>>,
                     !.added = @ + 1]
    /\ EditorFrame

\* remove_command
EditorRemoveCommand ==
    /\ ~editor.panicked
    /\ editor' = [editor EXCEPT !.tm_commands = Pop(@),
                                !.tm_protocol = <<>>]
    /\ EditorFrame

\* add_tape
EditorAddTape ==
    /\ ~editor.panicked
    /\ editor.num_tapes < MaxNumTapes
    /\ editor' = [editor EXCEPT
                    !.tm_commands = [i \in 1..Len(@) |->
                                        MultiCommandAddTape(@[i])],
                    !.num_tapes = @ + 1,
                    !.tm_protocol = <<>>]
    /\ EditorFrame

\* a remove_tape that does not stop at one tape
EditorRemoveTapeBelowOne ==
    /\ ~editor.panicked
    /\ editor.num_tapes > 0
    /\ editor' = [editor EXCEPT
                    !.num_tapes = @ - 1,
                    !.tm_commands = [i \in 1..Len(@) |->
                                        MultiCommandRemoveTape(@[i])],
                    !.tm_protocol = <<>>]
    /\ EditorFrame

\* remove_tape
EditorRemoveTape ==
    /\ ~editor.panicked
    /\ editor' = IF editor.num_tapes = 1 THEN editor
                 ELSE [editor EXCEPT
                         !.num_tapes = @ - 1,
                         !.tm_commands = [i \in 1..Len(@) |->
                                             MultiCommandRemoveTape(@[i])],
                         !.tm_protocol = <<>>]
    /\ EditorFrame

\* set_preset, for the preset the combo box holds
EditorSetPreset ==
    /\ ~editor.panicked
    /\ \E tm_preset \in Presets :
          editor' = [editor EXCEPT
                      !.tm_preset = tm_preset,
                      !.tm_protocol = <<>>,
                      !.tm_alphabet_primary = <<"a", "b", "c">>,
                      !.tm_input = <<>>,
                      !.num_tapes = IF tm_preset = "OneTape" THEN 1 ELSE 2,
                      !.tm_alphabet_secondary =
                          IF tm_preset = "OneTape"
                          THEN <<"0", "1", "A", "B", "C">>
                          ELSE <<"0", "1", "X">>,
                      !.tm_commands =
                          IF tm_preset = "OneTape" THEN PresetOneTape
                          ELSE PresetMultitape,
                      !.added = 0]
    /\ EditorFrame

NextEditor ==
    \/ EditorAddCommand
    \/ EditorRemoveCommand
    \/ EditorAddTape
    \/ EditorRemoveTape
    \/ EditorSetPreset

SpecEditor == InitEditor /\ [][NextEditor]_vars

----------------------------------------------------------------------------
(* What the claims speak of                                                *)

\* the Program holds a rule for the state and the cells under the heads
HasRule(m) ==
    \E r \in Rules(m.program) : r[1] = m.current_state /\ r[2] = HeadCells(m)

\* that rule's <<output state, output cells, directions>>
RuleFor(m) ==
    (CHOOSE r \in Rules(m.program) :
        r[1] = m.current_state /\ r[2] = HeadCells(m))[3]

\* Left = -1, Stay = 0, Right = +1
Delta(direction) ==
    CASE direction = "Left" -> 0 - 1
      [] direction = "None" -> 0
      [] direction = "Right" -> 1

----------------------------------------------------------------------------
(* C1: when the Program has a rule for the current state and the cells     *)
(* under the heads, next leaves on every tape i the rule's output cell i   *)
(* at the position the head was on and changes no other position, moves    *)
(* head i by -1, 0 or +1 as direction i is Left, Stay or Right, makes the  *)
(* rule's output state the current state, keeps the Program, and returns   *)
(* Some of the rendering of the machine as it then is.                     *)
C1_NextAppliesRule ==
    [][(op' = "next" /\ HasRule(tm)) =>
        LET rule == RuleFor(tm) IN
        /\ Len(tm'.tapes) = Len(tm.tapes)
        /\ \A i \in 1..Len(tm.tapes) :
              LET old == tm.tapes[i]
                  new == tm'.tapes[i]
              IN  /\ CellAt(new, old.head) = rule[2][i]
                  /\ new.head = old.head + Delta(rule[3][i])
                  /\ \A p \in Positions \ {old.head} :
                        CellAt(new, p) = CellAt(old, p)
        /\ tm'.current_state = rule[1]
        /\ tm'.program = tm.program
        /\ ret' = Some(ToStrings(tm'))]_vars

\* a step of a two-tape machine has written 'a' where head 1 was and moved
\* head 0 right and head 1 left
C1_Witness ==
    /\ op = "next"
    /\ ret[1] = "Some"
    /\ Len(tm.tapes) = 2
    /\ tm.tapes[1].head = 1
    /\ tm.tapes[2].head = 0 - 1
    /\ CellAt(tm.tapes[2], 0) = Symbol("a")

----------------------------------------------------------------------------
(* C2: when the Program has no entry for the current state, or that        *)
(* state's rules have no entry for the cells under the heads, next returns *)
(* None (not an error) and leaves the current state, every tape with its   *)
(* cells, head and window, and the Program as they were.                   *)
C2_HaltLeavesMachine ==
    [][(op' = "next" /\ ~HasRule(tm)) => (ret' = None /\ tm' = tm)]_vars

\* next has halted in a state that has rules, none of them for the cells
\* under the heads, after the machine had moved
C2_Witness ==
    /\ op = "next"
    /\ ret = None
    /\ tm.current_state \in DOMAIN tm.program
    /\ tm.program[tm.current_state] # EmptyMap
    /\ \E i \in 1..Len(tm.tapes) : tm.tapes[i].head # 0

----------------------------------------------------------------------------
(* C3: once next has returned None, a call of next that follows with no    *)
(* restart in between returns None again; and next does not return None    *)
(* when a rule matches the current state and the cells under the heads.    *)
C3_TraceEndsAtHalt ==
    [][/\ (op = "next" /\ ret = None /\ op' = "next") => ret' = None
       /\ (op' = "next" /\ HasRule(tm)) => ret' # None]_vars

\* the machine took a step and then halted in a state the Program has no
\* entry for
C3_Witness ==
    /\ op = "next"
    /\ ret = None
    /\ tm.current_state \notin DOMAIN tm.program
    /\ fired # {}

----------------------------------------------------------------------------
(* C4: stepping is deterministic: all the steps a machine takes from one   *)
(* pair of state and cells under the heads lead to the same next state,    *)
(* write the same cells and move the heads the same way.                   *)
C4_Deterministic ==
    \A x \in fired : \A y \in fired :
        (x[1] = y[1] /\ x[2] = y[2]) => x = y

\* the machine has taken transitions from two different pairs, and stands
\* again on a pair it has already stepped from
C4_Witness ==
    /\ Cardinality(fired) >= 2
    /\ op = "restart"
    /\ ret = Ok
    /\ \E x \in fired : x[1] = tm.current_state /\ x[2] = HeadCells(tm)

----------------------------------------------------------------------------
(* C5: from_multi returns Ok, and builds a machine, exactly when the list  *)
(* of commands is not empty and the tape count of every command equals the *)
(* number of initial tapes; otherwise it returns an error and builds no    *)
(* machine.                                                                *)
C5_FromMultiOkIff ==
    op = "from_multi" =>
        LET uniform ==
                /\ args.commands # <<>>
                /\ \A i \in 1..Len(args.commands) :
                      Len(args.commands[i].icells) = Len(args.start_tapes)
        IN  /\ ret = Ok <=> uniform
            /\ ret = Ok => Built /\ Len(tm.tapes) = Len(args.start_tapes)
            /\ ret # Ok => IsErr(ret) /\ tm = NoMachine

\* from_multi has refused a list whose first command fits the initial tapes
\* and whose second command does not
C5_Witness ==
    /\ op = "from_multi"
    /\ IsErr(ret)
    /\ Len(args.commands) = 2
    /\ Len(args.commands[1].icells) = Len(args.start_tapes)
    /\ Len(args.commands[2].icells) # Len(args.start_tapes)

----------------------------------------------------------------------------
(* C6: new returns an error for every Program that holds a rule whose      *)
(* input tuple has length zero, whatever the number of initial tapes.      *)
C6_ZeroLengthKeyIsError ==
    (op = "new" /\ \E r \in Rules(args.program) : Len(r[2]) = 0)
        => IsErr(ret)

----------------------------------------------------------------------------
(* C7: new returns Ok for every Program that holds at least one rule and   *)
(* whose rules all have input, output and direction tuples of length T,    *)
(* the number of initial tapes, T >= 1; and it returns an error for every  *)
(* Program in which some rule has a tuple of another length.               *)
C7_NewOkIffUniform ==
    op = "new" =>
        LET T == Len(args.start_tapes)
            R == Rules(args.program)
            fits(r) == Len(r[2]) = T /\ Len(r[3][2]) = T /\ Len(r[3][3]) = T
        IN  /\ (R # {} /\ T >= 1 /\ \A r \in R : fits(r)) => ret = Ok
            /\ (\E r \in R : ~fits(r)) => IsErr(ret)

----------------------------------------------------------------------------
(* C8: a machine that new, from or from_multi returned has, then and after *)
(* every next and restart, the number of tapes it was built with; that     *)
(* number is at least 1 and is the length of the input, output and         *)
(* direction tuples of every rule of its Program.                          *)
C8_TapeCount ==
    [][/\ Built' =>
            /\ Len(tm'.tapes) >= 1
            /\ \A r \in Rules(tm'.program) :
                  /\ Len(r[2]) = Len(tm'.tapes)
                  /\ Len(r[3][2]) = Len(tm'.tapes)
                  /\ Len(r[3][3]) = Len(tm'.tapes)
       /\ (Built /\ Built') => Len(tm'.tapes) = Len(tm.tapes)]_vars

----------------------------------------------------------------------------
(* C9: a list given to from or from_multi that holds several rules with    *)
(* the same input state and input tuple raises no error, and the Program   *)
(* of the machine holds, for every such key, the last of these rules in    *)
(* list order and no other.                                                *)

\* the rule a command of from or from_multi stands for
RuleOf(cmd) ==
    IF op = "from"
    THEN <<cmd.istate, <<cmd.icell>>,
           <<cmd.ostate, <<cmd.ocell>>, <<cmd.direction>>>>>>
    ELSE <<cmd.istate, cmd.icells, <<cmd.ostate, cmd.ocells, cmd.directions>>>>

\* the rules no later rule of the list has the key of
LastRules(commands) ==
    {RuleOf(commands[i]) : i \in
        {i \in 1..Len(commands) :
            \A j \in (i + 1)..Len(commands) :
                ~(/\ RuleOf(commands[j])[1] = RuleOf(commands[i])[1]
                  /\ RuleOf(commands[j])[2] = RuleOf(commands[i])[2])}}

\* two rules of the list have one key
HasDuplicateKey(commands) ==
    \E i \in 1..Len(commands) : \E j \in (i + 1)..Len(commands) :
        /\ RuleOf(commands[j])[1] = RuleOf(commands[i])[1]
        /\ RuleOf(commands[j])[2] = RuleOf(commands[i])[2]

C9_LastWriteWins ==
    /\ (op = "from" /\ HasDuplicateKey(args.commands)) => ret = Ok
    /\ (/\ op = "from_multi"
        /\ HasDuplicateKey(args.commands)
        /\ \A i \in 1..Len(args.commands) :
              Len(args.commands[i].icells) = Len(args.start_tapes))
          => ret = Ok
    /\ (op \in {"from", "from_multi"} /\ ret = Ok)
          => Rules(tm.program) = LastRules(args.commands)

\* a machine was built from two rules with one key and different outputs
C9_Witness ==
    /\ op \in {"from", "from_multi"}
    /\ ret = Ok
    /\ Len(args.commands) = 2
    /\ HasDuplicateKey(args.commands)
    /\ RuleOf(args.commands[1])[3] # RuleOf(args.commands[2])[3]

----------------------------------------------------------------------------
(* C10: a machine built by from or from_multi is in the input state of the *)
(* first rule of the list, and before any step the rendering of each tape  *)
(* is that state followed by the rendering of the tape: the state stands   *)
(* at position 0.                                                          *)
C10_StartsInFirstState ==
    (op \in {"from", "from_multi"} /\ ret = Ok) =>
        /\ tm.current_state = args.commands[1].istate
        /\ ToStrings(tm) # Panic
        /\ \A i \in 1..Len(tm.tapes) :
              ToStrings(tm)[i] =
                  args.commands[1].istate \o TapeToString(tm.tapes[i])

\* a two-tape machine was built from a list whose second rule has another
\* input state than the first
C10_Witness ==
    /\ op = "from_multi"
    /\ ret = Ok
    /\ Len(tm.tapes) = 2
    /\ Len(args.commands) = 2
    /\ args.commands[1].istate = q1
    /\ args.commands[2].istate = q0

----------------------------------------------------------------------------
(* C11: restart called with a number of initial tapes that differs from    *)
(* the machine's tape count returns an error and leaves the machine's      *)
(* tapes, current state and Program exactly as they were.                  *)
C11_RestartMismatch ==
    [][(op' = "restart" /\ Len(args'.start_tapes) # Len(tm.tapes)) =>
        (IsErr(ret') /\ tm' = tm)]_vars

\* a machine that had moved was restarted with one tape too few and with a
\* state that is not its current state
C11_Witness ==
    /\ op = "restart"
    /\ IsErr(ret)
    /\ fired # {}
    /\ Len(args.start_tapes) < Len(tm.tapes)
    /\ args.start_state # tm.current_state

----------------------------------------------------------------------------
\* the machines new returns for a Program, over the orders in which the
\* HashMap may hand out its first entry
FreshMachines(start_tapes, start_state, program) ==
    UNION {UNION {LET r == TMNew(start_tapes, start_state, program, s, k)
                  IN  IF r.ret = Ok THEN {r.tm} ELSE {} :
                  k \in (IF DOMAIN program[s] = {} THEN {<<>>}
                         ELSE DOMAIN program[s])} :
           s \in DOMAIN program}

(* C12: after a successful restart(tapes, state), wherever the earlier run *)
(* had got to, the machine is the machine new builds from the same         *)
(* Program, tapes and state, so to_strings and every later snapshot are    *)
(* the same; and restart and every step leave the Program as it was.       *)
C12_RestartIsFresh ==
    [][/\ (op' = "restart" /\ ret' = Ok) =>
            /\ FreshMachines(args'.start_tapes, args'.start_state,
                             tm.program) = {tm'}
            /\ tm'.program = tm.program
       /\ op' = "next" => tm'.program = tm.program]_vars

\* a machine that had moved its head off position 0 and changed its state
\* was restarted with a tape that is not empty
C12_Witness ==
    /\ op = "restart"
    /\ ret = Ok
    /\ fired # {}
    /\ Len(tm.tapes) >= 1
    /\ \E t \in fired : t[5][1] # 0 /\ t[3] # args.start_state
    /\ args.start_tapes[1] # <<>>

----------------------------------------------------------------------------
(* Tapes on their own                                                      *)

\* the operations that change a tape
Mutations == {"write", "left", "right"}


\* the tape was created by Tape::from(value)
MadeFrom(value) == origin = <<"from", value>>

----------------------------------------------------------------------------
(* C13: on a tape made by Tape::new or from an initial string and then     *)
(* written and moved in any way, a read that follows write(c) at once      *)
(* returns c, Blank as well as a Symbol, and every read returns the cell   *)
(* last put at the head's position by the initial string or by a write:    *)
(* Blank where nothing was put or where Blank was written last.            *)
C13_WriteReadRoundTrip ==
    [][solo_op' = "get" =>
        /\ solo_ret' = content[solo.head]
        /\ solo_op = "write" => solo_ret' = solo_arg]_vars

\* Blank was read at position 0 of a tape made from "a": Blank had been
\* written over the initial character
C13_Witness ==
    /\ solo_op = "get"
    /\ MadeFrom(<<"a">>)
    /\ solo.head = 0
    /\ solo_ret = Blank

----------------------------------------------------------------------------
(* C14: after every write, left or right on a tape made by Tape::new or    *)
(* from any initial string, the empty string included, min <= max.         *)
C14_MinLeMax ==
    solo_op \in Mutations => solo.min <= solo.max

\* a tape made from the empty string, whose window was [0, -1], has been
\* written Blank at position 0
C14_Witness ==
    /\ solo_op = "write"
    /\ solo_arg = Blank
    /\ MadeFrom(<<>>)
    /\ solo.head = 0
    /\ solo.tape = EmptyMap

----------------------------------------------------------------------------
(* C15: in every tape state reached from Tape::new or from an initial      *)
(* string by writes and moves the cell map holds no entry whose value is   *)
(* Blank: a position is in the map exactly when its content is a Symbol.   *)
C15_Sparse ==
    /\ \A p \in DOMAIN solo.tape : solo.tape[p] # Blank
    /\ \A p \in Positions : p \in DOMAIN solo.tape <=> content[p] # Blank

----------------------------------------------------------------------------
(* C16, as the claim states it: after every write, left or right the       *)
(* stored window contains the head, min <= head <= max.                    *)
C16_WindowHoldsHead ==
    solo_op \in Mutations =>
        (solo.min <= solo.head /\ solo.head <= solo.max)

\* the positions the map has an entry for
Stored == DOMAIN solo.tape

(* C16, amended: after every write, left or right the stored window        *)
(* contains the head whenever the head stands on a stored position or      *)
(* between two stored positions; when the head stands beyond every stored  *)
(* position the window ends at the outermost stored position on that side  *)
(* and leaves the head outside.                                            *)
C16_WindowHoldsHeadAmongCells ==
    solo_op \in Mutations =>
        /\ (\E lo, hi \in Stored : lo <= solo.head /\ solo.head <= hi) =>
              (solo.min <= solo.head /\ solo.head <= solo.max)
        /\ (Stored # {} /\ \A p \in Stored : p < solo.head) =>
              /\ solo.max \in Stored
              /\ \A p \in Stored : p <= solo.max
              /\ solo.max < solo.head
        /\ (Stored # {} /\ \A p \in Stored : p > solo.head) =>
              /\ solo.min \in Stored
              /\ \A p \in Stored : p >= solo.min
              /\ solo.head < solo.min

\* 'b' was written at position 0 of a new tape and the head moved three
\* cells to the right: the window is [0, 0] and the head is at 3
C16_Witness ==
    /\ solo_op = "right"
    /\ origin = <<"new">>
    /\ solo.tape = MapInsert(EmptyMap, 0, Symbol("b"))
    /\ solo.head = 3
    /\ solo.min = 0
    /\ solo.max = 0

----------------------------------------------------------------------------
(* C17: a tape created from a string of n >= 1 characters holds character  *)
(* i at position i for 0 <= i < n, has head 0 and window [0, n - 1], n     *)
(* counting characters; a tape created from the empty string or by         *)
(* Tape::new has head 0 and window [0, 0].                                 *)
C17_FromString ==
    /\ (solo_op = "from" /\ Len(solo_arg) >= 1) =>
          /\ \A i \in 0..(Len(solo_arg) - 1) :
                CellToChar(CellAt(solo, i)) = solo_arg[i + 1]
          /\ solo.head = 0
          /\ solo.min = 0
          /\ solo.max = Len(solo_arg) - 1
    /\ (solo_op = "new" \/ (solo_op = "from" /\ solo_arg = <<>>)) =>
          /\ solo.head = 0
          /\ solo.min = 0
          /\ solo.max = 0

----------------------------------------------------------------------------
(* C18: for every tape reached and every label, to_string_with_state does  *)
(* not panic and returns the characters of the positions from              *)
(* min(min, head) to max(max, head), one for each, Blank as BLANK_CHAR,    *)
(* with the label right before the character of the head's position (the   *)
(* first character when head < min); the character after the label is the  *)
(* rendering of the cell get returns.                                      *)
C18_LabelBeforeHead ==
    solo_op = "to_string_with_state" =>
        LET lo == Min(solo.min, solo.head)
            hi == Max(solo.max, solo.head)
            chars == [i \in 1..(hi - lo + 1) |->
                         CellToChar(content[lo + i - 1])]
            before == solo.head - lo
        IN  /\ solo_ret # Panic
            /\ solo_ret = SubSeq(chars, 1, before) \o solo_arg
                             \o SubSeq(chars, before + 1, Len(chars))
            /\ solo_ret[before + Len(solo_arg) + 1] =
                  CellToChar(TapeGet(solo))
            /\ solo.head < solo.min => before = 0

\* a tape whose head stands left of the window, on a position left of 0,
\* was rendered with the label q0
C18_Witness ==
    /\ solo_op = "to_string_with_state"
    /\ solo_arg = q0
    /\ solo.head < solo.min
    /\ solo.head < 0

----------------------------------------------------------------------------
(* Word cursors                                                            *)

\* no character occurs twice in the alphabet
Distinct(chars) ==
    \A i, j \in 1..Len(chars) : chars[i] = chars[j] => i = j

\* the rank the alphabet's order gives a character
Rank(ch, chars) == CHOOSE i \in 1..Len(chars) : chars[i] = ch

\* u comes before v in the lexicographic order, leftmost character first
LexLess(u, v, chars) ==
    \E i \in 1..Len(u) :
        /\ \A j \in 1..(i - 1) : u[j] = v[j]
        /\ Rank(u[i], chars) < Rank(v[i], chars)

RECURSIVE Power(_, _)
Power(a, n) == IF n = 0 THEN 1 ELSE a * Power(a, n - 1)

----------------------------------------------------------------------------
(* C19: for an alphabet of A distinct characters and a length L >= 1 the   *)
(* cursor of get_exhaustive_words(L) yields exactly A^L words and then     *)
(* None; every word has L characters of the alphabet, and the words come   *)
(* in strictly increasing lexicographic order (hence are distinct), the    *)
(* alphabet's order ranking the characters and the leftmost character      *)
(* being the most significant.                                             *)
C19_Odometer ==
    (cursor.length >= 1 /\ Distinct(cursor.chars)) =>
        LET total == Power(Len(cursor.chars), cursor.length) IN
        /\ word # Panic
        /\ \A k \in 1..Len(yielded) :
              /\ Len(yielded[k]) = cursor.length
              /\ \A i \in 1..cursor.length :
                    \E n \in 1..Len(cursor.chars) :
                        yielded[k][i] = cursor.chars[n]
        /\ \A k \in 1..(Len(yielded) - 1) :
              LexLess(yielded[k], yielded[k + 1], cursor.chars)
        /\ Len(yielded) <= total
        /\ word = None => Len(yielded) = total

----------------------------------------------------------------------------
(* C20: for length 0 the cursor returns None on its first call and on      *)
(* every later one, whatever the alphabet: it yields no word, not one      *)
(* empty word.                                                             *)
C20_ZeroLengthYieldsNothing ==
    cursor.length = 0 =>
        /\ yielded = <<>>
        /\ word_op = "next" => word = None

\* next was called on a cursor of length 0 over an alphabet of two
\* characters
C20_Witness ==
    /\ word_op = "next"
    /\ cursor.length = 0
    /\ Len(cursor.chars) = 2
    /\ word = None

----------------------------------------------------------------------------
(* C21: for every alphabet and length the cursor is exhausted after        *)
(* finitely many calls of next: no call panics, each call before the       *)
(* first None yields a word, and at most len(alphabet)^length words are    *)
(* yielded; and once next has returned None every later call returns None  *)
(* and yields nothing.                                                     *)
C21_ExhaustsForGood ==
    [][/\ word' # Panic
       /\ word' # None => yielded' = Append(yielded, word'[2])
       /\ Len(yielded') <= Power(Len(cursor.chars), cursor.length)
       /\ word = None => (word' = None /\ yielded' = yielded)]_vars

----------------------------------------------------------------------------
(* C22: MultiCommand::new returns an error exactly when the input tuple    *)
(* is empty or the input, output and direction tuples differ in length;    *)
(* and every MultiCommand got from new or from a Command has, after any    *)
(* add_tape and remove_tape calls, as many input cells as output cells as  *)
(* directions as len() says, and at least one.                             *)
C22_SlotsAgree ==
    /\ mcmd_op = "new" =>
          (IsErr(mcmd_ret) <=>
              \/ Len(mcmd_args.icells) = 0
              \/ Len(mcmd_args.icells) # Len(mcmd_args.ocells)
              \/ Len(mcmd_args.icells) # Len(mcmd_args.directions))
    /\ mcmd = NoCommand <=> (mcmd_op = "new" /\ IsErr(mcmd_ret))
    /\ mcmd # NoCommand =>
          /\ Len(mcmd.icells) = MultiCommandLen(mcmd)
          /\ Len(mcmd.ocells) = MultiCommandLen(mcmd)
          /\ Len(mcmd.directions) = MultiCommandLen(mcmd)
          /\ MultiCommandLen(mcmd) >= 1

\* remove_tape was called on the only tape of a command made from a Command
C22_Witness ==
    /\ mcmd_op = "remove_tape"
    /\ mcmd_args \in Commands
    /\ mcmd_before = mcmd
    /\ MultiCommandLen(mcmd) = 1

----------------------------------------------------------------------------
(* C23: add_tape appends one slot (input Blank, output Blank, direction    *)
(* None) after the slots there are and leaves those slots and both state   *)
(* labels as they were; remove_tape deletes the last slot only, and        *)
(* changes nothing when the command has exactly one tape.                  *)
C23_SlotFrame ==
    /\ mcmd_op = "add_tape" =>
          LET n == MultiCommandLen(mcmd_before) IN
          /\ MultiCommandLen(mcmd) = n + 1
          /\ Len(mcmd.icells) = n + 1
          /\ Len(mcmd.ocells) = n + 1
          /\ Len(mcmd.directions) = n + 1
          /\ mcmd.icells[n + 1] = Blank
          /\ mcmd.ocells[n + 1] = Blank
          /\ mcmd.directions[n + 1] = "None"
          /\ \A i \in 1..n :
                /\ mcmd.icells[i] = mcmd_before.icells[i]
                /\ mcmd.ocells[i] = mcmd_before.ocells[i]
                /\ mcmd.directions[i] = mcmd_before.directions[i]
          /\ mcmd.istate = mcmd_before.istate
          /\ mcmd.ostate = mcmd_before.ostate
    /\ mcmd_op = "remove_tape" =>
          LET n == MultiCommandLen(mcmd_before) IN
          IF n = 1 THEN mcmd = mcmd_before
          ELSE /\ MultiCommandLen(mcmd) = n - 1
               /\ Len(mcmd.icells) = n - 1
               /\ Len(mcmd.ocells) = n - 1
               /\ Len(mcmd.directions) = n - 1
               /\ \A i \in 1..(n - 1) :
                     /\ mcmd.icells[i] = mcmd_before.icells[i]
                     /\ mcmd.ocells[i] = mcmd_before.ocells[i]
                     /\ mcmd.directions[i] = mcmd_before.directions[i]
               /\ mcmd.istate = mcmd_before.istate
               /\ mcmd.ostate = mcmd_before.ostate

\* a tape was added to a command of two tapes whose slots are not those
\* add_tape appends
C23_Witness ==
    /\ mcmd_op = "add_tape"
    /\ MultiCommandLen(mcmd) = 3
    /\ mcmd.icells[1] = Symbol("a")
    /\ mcmd.ocells[2] = Symbol("a")
    /\ mcmd.directions[1] = "Right"

\* the snapshot of the a-to-b machine on a^n after k steps
CopySnapshot(n, k) ==
    Repeat("b", k) \o q0 \o
    (IF k < n THEN Repeat("a", n - k) ELSE <<BLANK_CHAR>>)

\* C24: the machine whose only rule is (q0, a) -> (q0, b, Right), started in
\* q0 on a^n with n >= 1, shows q0 a^n before any step; its k-th step yields
\* b^k q0 a^(n-k) for k < n and b^n q0 BLANK_CHAR for k = n; it yields no
\* more than n snapshots, and the call of next after the n-th halts.
C24_CopyTrace ==
    LET n == Len(args.word) IN
    (args.kind = "copy" /\ n >= 1) =>
        /\ steps <= n
        /\ op = "from" => ret = Ok /\ ToStrings(tm) = <<q0 \o args.word>>
        /\ op = "next" => steps >= 1
        /\ (op = "next" /\ ret # None) =>
              ret = Some(<<CopySnapshot(n, steps)>>)
        /\ ret = None => steps = n

\* the machine has halted on aaa after its three snapshots
C24_Witness ==
    /\ args.kind = "copy"
    /\ args.word = <<"a", "a", "a">>
    /\ ret = None
    /\ steps = 3
    /\ ToStrings(tm) = <<<<"b", "b", "b", "q", "0", BLANK_CHAR>>>>

\* the bitwise complement of a binary word
Complement(w) == [i \in 1..Len(w) |-> IF w[i] = "0" THEN "1" ELSE "0"]

\* C25: the binary-complement machine of the tests, started in q0 on a
\* non-empty binary word w of n characters, makes no more than 2n + 2 steps
\* and halts at the call of next after them, in state qz, with the head on
\* the first character and the tape reading the complement of w: its final
\* snapshot is qz followed by the complement.
C25_Complements ==
    LET n == Len(args.word) IN
    (args.kind = "complement" /\ n >= 1) =>
        /\ steps <= 2 * n + 2
        /\ ret = None =>
              /\ steps = 2 * n + 2
              /\ tm.current_state = qz
              /\ tm.tapes[1].head = 0
              /\ ToStrings(tm) = <<qz \o Complement(args.word)>>

\* the machine has halted on 10 with 01 on the tape
C25_Witness ==
    /\ args.kind = "complement"
    /\ args.word = <<"1", "0">>
    /\ ret = None
    /\ steps = 6
    /\ ToStrings(tm) = <<<<"q", "z", "0", "1">>>>

\* w is a^n b^m c^n with m, n >= 1 and n # m
InLanguage(w) ==
    \E n \in 1..Len(w), m \in 1..Len(w) :
        /\ n # m
        /\ w = Repeat("a", n) \o Repeat("b", m) \o Repeat("c", n)

\* C26: when the one-tape preset machine, started on a word w over {a, b, c},
\* has halted, its snapshot is qz1 if w is a^n b^m c^n with m, n >= 1 and
\* n # m, and qz0 otherwise.
C26_OneTapeDecides ==
    (args.kind = "one_tape" /\ ret = None) =>
        ToStrings(tm) =
            <<IF InLanguage(args.word) THEN qz \o <<"1">> ELSE qz \o <<"0">>>>

\* C27: the two-tape preset machine, started with a word w of n letters
\* over {a, b, c} on tape 0 and an empty tape 1, makes no more than 3n + 3
\* steps and then halts; the snapshot of tape 0 is then qz0 or qz1, the one
\* its test expects for the words of the tests, and qz0 for every word of
\* at most three letters; from two empty tapes one step yields state qz
\* with 0 on tape 0, and the next call halts.
C27_MultitapeAnswers ==
    args.kind = "multitape" =>
        /\ steps <= 3 * Len(args.word) + 3
        /\ ret = None =>
              /\ ToStrings(tm)[1] \in {qz \o <<"0">>, qz \o <<"1">>}
              /\ Len(args.word) <= 3 => ToStrings(tm)[1] = qz \o <<"0">>
              /\ \A t \in MultitapeTests :
                    t[1] = args.word => ToStrings(tm)[1] = t[2]
        /\ (args.word = <<>> /\ op = "next") =>
              /\ steps = 1
              /\ tm.current_state = qz
              /\ ToStrings(tm)[1] = qz \o <<"0">>
              /\ ret # None => ret[2][1] = qz \o <<"0">>

\* the machine has halted on aabbbcc with qz1 on tape 0
C27_Witness ==
    /\ args.kind = "multitape"
    /\ args.word = <<"a", "a", "b", "b", "b", "c", "c">>
    /\ ret = None
    /\ ToStrings(tm)[1] = <<"q", "z", "1">>

\* C28: in the plotting worker a trial, the run of the machine on one
\* generated word, makes no more than a fixed number of steps, the 500 of
\* the worker's loop, also when the machine never halts and no stop is
\* requested.
C28_TrialCapped ==
    (/\ plot.pc = "block"
     /\ ~plot.is_tm_stop_plot_requested
     /\ ~plot.asked) => plot.steps <= PollPeriod

C30_StopHonoured ==
    plot.asked =>
        /\ plot.since <= PollPeriod
        /\ ~(plot.pc = "panicked" /\ plot.is_tm_plotting)

----------------------------------------------------------------------------
(* Tapes on their own, the claims that follow                              *)

\* the tape was created by Tape::new
MadeNew == origin = <<"new">>

\* the smallest and the largest member of a non-empty set of integers
SetMin(S) == CHOOSE x \in S : \A y \in S : x <= y

SetMax(S) == CHOOSE x \in S : \A y \in S : x >= y

\* C31: after any sequence of write, left and right from Tape::new, the map
\* holds Symbols only, the range rendering walks, [min(min, head),
\* max(max, head)], is the smallest closed interval that holds the head and
\* every stored Symbol, and when a Symbol is stored the window [min, max]
\* runs from the smallest to the largest stored position.
C31_RenderRange ==
    MadeNew =>
        /\ \A p \in Stored : solo.tape[p] # Blank
        /\ Min(solo.min, solo.head) = SetMin(Stored \cup {solo.head})
        /\ Max(solo.max, solo.head) = SetMax(Stored \cup {solo.head})
        /\ Stored # {} => /\ solo.min = SetMin(Stored)
                          /\ solo.max = SetMax(Stored)

\* two Symbols are stored with Blank between them and the head stands to
\* the left of both
C31_Witness ==
    /\ MadeNew
    /\ solo_op \in Mutations
    /\ Stored = {0, 2}
    /\ solo.head = 0 - 2

\* no position holds a Symbol
AllBlank(t) == \A p \in DOMAIN t.tape : t.tape[p] = Blank

\* C32: trim leaves a window of at least one cell; when every cell of the
\* window it starts from is Blank, the window collapses onto the boundary
\* trim processes second, max when head >= min and min when head < min; so
\* on a tape that stores no Symbol min = max = head after every write, left
\* and right.
C32_CollapseOntoSecond ==
    [][solo_op' \in Mutations =>
        /\ solo'.min <= solo'.max
        /\ AllBlank(solo') =>
              /\ solo'.head >= solo.min =>
                    /\ solo'.min = Max(solo.max, solo'.head)
                    /\ solo'.max = Max(solo.max, solo'.head)
              /\ solo'.head < solo.min =>
                    /\ solo'.min = solo'.head
                    /\ solo'.max = solo'.head
              /\ solo'.min = solo'.head
              /\ solo'.max = solo'.head]_vars

\* C33: the content of a position changes only by a write with the head on
\* it: write leaves the head and every other position alone and puts its
\* cell under the head, left and right move the head by exactly one and
\* leave every position alone (get and the rendering change nothing), and
\* nothing stops the head at the window or anywhere else.
C33_Frame ==
    [][/\ solo_op' = "write" =>
             /\ solo'.head = solo.head
             /\ CellAt(solo', solo.head) = solo_arg'
             /\ \A p \in Positions \ {solo.head} :
                    CellAt(solo', p) = CellAt(solo, p)
       /\ solo_op' = "left" =>
             /\ solo'.head = solo.head - 1
             /\ \A p \in Positions : CellAt(solo', p) = CellAt(solo, p)
       /\ solo_op' = "right" =>
             /\ solo'.head = solo.head + 1
             /\ \A p \in Positions : CellAt(solo', p) = CellAt(solo, p)
       /\ solo_op' \in {"get", "to_string_with_state"} => solo' = solo
       /\ DOMAIN solo'.tape \subseteq Positions]_vars

C33_Witness ==
    /\ solo_op = "left" /\ solo.head = 0 - MaxHead
    /\ solo.min = 0 /\ solo.max = MaxLen - 1 /\ AllBlank(solo) = FALSE

\* t and u have the same head, the same content at every position and the
\* same rendering with every state label
SameObservable(t, u) ==
    /\ t.head = u.head
    /\ \A p \in Positions : CellAt(t, p) = CellAt(u, p)
    /\ \A state \in Labels :
          ToStringWithState(t, state) = ToStringWithState(u, state)

SameWindow(t, u) == t.min = u.min /\ t.max = u.max

\* C34: on every reachable tape right followed by left, and left followed by
\* right, restores the head, the content of every position and the string
\* rendered with any state label; when the tape was last changed by write,
\* left or right, min and max are restored too.
C34_LeftRightInverse ==
    /\ SameObservable(TapeLeft(TapeRight(solo)), solo)
    /\ SameObservable(TapeRight(TapeLeft(solo)), solo)
    /\ solo_op \in Mutations =>
          /\ SameWindow(TapeLeft(TapeRight(solo)), solo)
          /\ SameWindow(TapeRight(TapeLeft(solo)), solo)

----------------------------------------------------------------------------
(* The three constructors                                                 *)

\* no two rules of the list have the same input state and input cell
NoDuplicateKeys(commands) ==
    \A i, j \in 1..Len(commands) :
        (/\ commands[i].istate = commands[j].istate
         /\ commands[i].icell = commands[j].icell) => i = j

RECURSIVE Trace(_, _)
\* what next returns, call after call, up to k calls and the first None
Trace(m, k) ==
    IF k = 0 THEN <<>>
    ELSE LET r == TMNext(m) IN
         IF r.ret = None THEN <<None>>
         ELSE <<r.ret>> \o Trace(r.tm, k - 1)

\* the same initial snapshot and the same snapshots step after step
SameTrace(m, n) ==
    /\ ToStrings(m) = ToStrings(n)
    /\ Trace(m, MaxTrace) = Trace(n, MaxTrace)

\* C35: for a list of single-tape rules without duplicate keys and any
\* initial tape, the machine from builds, the machine from_multi builds
\* from the rules converted to MultiCommands and the machine new builds
\* from the equivalent Program and the first rule's input state have the
\* same initial snapshot and the same snapshots step after step, and halt
\* at the same step.
C35_ConstructorsAgree ==
    (/\ op = "from"
     /\ args.commands # <<>>
     /\ NoDuplicateKeys(args.commands)) =>
        LET commands == args.commands
            multi == TMFromMulti(<<args.start_tape>>,
                         [i \in 1..Len(commands) |->
                              MultiCommandFrom(commands[i])])
            program == FromProgram(EmptyMap, commands)
        IN  /\ ret = Ok
            /\ multi.ret = Ok
            /\ SameTrace(tm, multi.tm)
            /\ \A first_state \in DOMAIN program :
                  \A first_key \in DOMAIN program[first_state] :
                     LET new == TMNew(<<args.start_tape>>,
                                      commands[1].istate, program,
                                      first_state, first_key)
                     IN  /\ new.ret = Ok
                         /\ SameTrace(tm, new.tm)

C35_Witness ==
    /\ op = "from"
    /\ Len(args.commands) = MaxCmds
    /\ NoDuplicateKeys(args.commands)
    /\ args.commands[1].istate # args.commands[2].istate
    /\ Len(Trace(tm, MaxTrace)) = MaxTrace
    /\ Trace(tm, MaxTrace)[MaxTrace] = None

----------------------------------------------------------------------------
(* The sessions of main.rs, the claims that follow                         *)

\* C36: a stop request acts only on the run it was made in: whenever an
\* execution worker is started, at its first statement, its stop flag is
\* false, whatever the interleaving of the user interface with the worker
\* that was finishing.
C36_FreshStopFlag ==
    [][(exec.pc \in {"idle", "done"} /\ exec'.pc = "push_initial") =>
           ~exec'.is_tm_stop_requested]_vars

RECURSIVE Steps(_, _)
\* the snapshots after step 1, step 2, ... of machine m, at most k of them
Steps(m, k) ==
    IF k = 0 THEN <<>>
    ELSE LET r == TMNext(m) IN
         IF r.ret = None \/ r.ret = Panic THEN <<>>
         ELSE <<r.ret[2]>> \o Steps(r.tm, k - 1)

\* the snapshot before any step, then the snapshot after each step
Snapshots(m, k) ==
    IF ToStrings(m) = Panic THEN <<>> ELSE <<ToStrings(m)>> \o Steps(m, k)

IsPrefix(s, t) == Len(s) <= Len(t) /\ s = SubSeq(t, 1, Len(s))

\* C37: from start_tm on, the trace list is at every moment a prefix of the
\* snapshots of the machine built at the start, the one before any step
\* first: it is empty when the worker starts, and while the run lasts
\* entries are only appended, none removed or reordered.
C37_TracePrefix ==
    [][/\ exec'.pc \notin {"idle", "ui_panicked"} =>
             IsPrefix(exec'.tm_protocol,
                      Snapshots(exec'.started, MaxProtocol))
       /\ (exec.pc \in {"idle", "done"} /\ exec'.pc = "push_initial") =>
             exec'.tm_protocol = <<>>
       /\ ExecWorkerRuns => IsPrefix(exec.tm_protocol, exec'.tm_protocol)
       /\ exec'.pc \in {"next", "push", "check"} =>
             exec'.tm_protocol # <<>>]_vars

C37_Witness ==
    /\ ExecWorkerRuns
    /\ exec.halted
    /\ Len(exec.tm_protocol) = 2
    /\ exec.tm_protocol[1] # exec.tm_protocol[2]
    /\ exec.tm_protocol = Snapshots(exec.started, MaxProtocol)

RECURSIVE HaltSteps(_, _)
\* the number of calls of next that return a snapshot before the one that
\* returns None, for a machine that halts within k steps
HaltSteps(m, k) ==
    LET r == TMNext(m) IN
    IF r.ret = None \/ k = 0 THEN 0 ELSE 1 + HaltSteps(r.tm, k - 1)

\* the steps of the session's machine restarted on word, other tapes empty
TrialSteps(p, w) ==
    HaltSteps(TMRestart(TMFromMulti(<<<<>>>>, p.tm_commands).tm, <<w>>,
                        p.start_state).tm,
              MaxPlotLen + 1)

\* the words of length n over the characters of the alphabet
WordsOfLength(alphabet, n) ==
    [1..n -> {alphabet[i] : i \in 1..Len(alphabet)}]

\* the largest number of steps over the words of length n
MostSteps(p, n) ==
    LET counts == {TrialSteps(p, w) : w \in WordsOfLength(p.alphabet, n)}
    IN  SetMax(counts)

\* C38: the points of the plot are those of the lengths 1, 2, 3, ... in
\* this order, one per length; the point of length L holds the largest
\* number of steps over the words of length L, each run to halting on the
\* machine restarted with the word on tape 0; a length the worker is still
\* at, or left at a stop request, has no point.
C38_PlotPoints ==
    plot.pc \notin {"idle", "ui_panicked"} =>
        /\ \A i \in 1..Len(plot.tm_plot_points) :
              plot.tm_plot_points[i] = <<i, MostSteps(plot, i)>>
        /\ plot.pc \in {"outer", "words", "block", "after_trial", "push"} =>
              Len(plot.tm_plot_points) = plot.n - 1
        /\ plot.pc = "check" => Len(plot.tm_plot_points) = plot.n
        /\ Len(plot.tm_plot_points) <= plot.n

C38_Witness ==
    /\ plot.pc = "clear_stop"
    /\ plot.alphabet = <<"a", "b">>
    /\ plot.n = MaxPlotLen
    /\ plot.steps = 1
    /\ plot.max_steps = MaxPlotLen
    /\ plot.tm_plot_points = <<<<1, 1>>>>

\* C39: in every state of the editor reached through add_command,
\* remove_command, add_tape, remove_tape and set_preset, num_tapes is at
\* least 1 and every rule of the table has num_tapes tapes, so from_multi
\* on a table that is not empty, with num_tapes initial tapes, returns no
\* error.
C39_TableMatchesTapes ==
    /\ ~editor.panicked
    /\ editor.num_tapes >= 1
    /\ \A i \in 1..Len(editor.tm_commands) :
          /\ MultiCommandLen(editor.tm_commands[i]) = editor.num_tapes
          /\ Len(editor.tm_commands[i].icells) = editor.num_tapes
          /\ Len(editor.tm_commands[i].ocells) = editor.num_tapes
          /\ Len(editor.tm_commands[i].directions) = editor.num_tapes
    /\ editor.tm_commands # <<>> =>
          TMFromMulti(Vec(<<>>, editor.num_tapes), editor.tm_commands).ret
              = Ok

C39_Witness ==
    /\ editor.tm_preset = "MultiTape"
    /\ editor.num_tapes = 1
    /\ editor.added = MaxAdded
    /\ Len(editor.tm_commands) = 3
    /\ editor.tm_commands[1] # editor.tm_commands[3]

\* C40: starting a plotting session never panics and never leaves the
\* plotting flag set without a worker, whatever the rule table holds, the
\* table without a rule included.
C40_StartNeverPanics ==
    /\ plot.pc # "ui_panicked"
    /\ plot.is_tm_plotting => plot.pc # "panicked"

====
